---- MODULE Spec2Model ----
(***************************************************************************)
(* Model of the pykoclaw WhatsApp bridge (src/src/pykoclaw_whatsapp).      *)
(*                                                                         *)
(* Two specifications share this module:                                   *)
(*   Spec     the inbound pipeline: MessageHandler.on_message on the       *)
(*            adapter thread, BatchAccumulator and                         *)
(*            WhatsAppConnection._handle_agent_trigger on the event loop,  *)
(*            the wa_messages / wa_chats tables and the send_message tool. *)
(*   OutSpec  the outbound side: OutgoingQueue, on_connected /             *)
(*            on_disconnected, _dispatch_for_agent's reply handling and    *)
(*            the delivery poller.                                         *)
(* Each specification leaves the other's variables at their initial value. *)
(***************************************************************************)
EXTENDS Integers, Sequences, FiniteSets, TLC

(***************************************************************************)
(* Bounds of the model.                                                    *)
(***************************************************************************)
MaxMsgs == 3
MaxEpoch == 2
MaxToolRows == 1
MaxCrashes == 1
MaxSends == 2
MaxDeliveries == 1
MaxFailures == 2
MaxFlushIter == 3
MaxRows == 2
MaxErrors == 1
MaxNames == 2
MaxPending == 1
MaxTasks == 3
MaxOps == 3

(***************************************************************************)
(* Timestamps are strings compared bytewise by SQLite.  A timestamp is     *)
(* modelled by the character codes that decide the comparison:             *)
(* <<date, separator, time of day>>.  isoformat() separates date and time  *)
(* with 'T' (84); SQLite's datetime('now') uses a space (32).              *)
(***************************************************************************)
SepT == 84
SepSpace == 32
DayLen == 2

EmptyStr == <<>>

RECURSIVE LexLess(_, _)
LexLess(a, b) ==
    IF b = <<>> THEN FALSE
    ELSE IF a = <<>> THEN TRUE
    ELSE IF Head(a) = Head(b) THEN LexLess(Tail(a), Tail(b))
    ELSE Head(a) < Head(b)

LexLeq(a, b) == a = b \/ LexLess(a, b)

IsoFormat(t) == <<((t - 1) \div DayLen) + 1, SepT, ((t - 1) % DayLen) + 1>>

SqlNow(t) == <<((t - 1) \div DayLen) + 1, SepSpace, ((t - 1) % DayLen) + 1>>

Epochs == 1..MaxEpoch
NowValues == 2..3

(***************************************************************************)
(* Routing configuration (RoutingConfig): one group routed to two agents,  *)
(* one direct chat that falls back to the default agent.                   *)
(***************************************************************************)
GroupChat == "g@g.us"
DirectChat == "d@s.whatsapp.net"
Chats == {GroupChat, DirectChat}

default_agent == "Ressu"
agents == {"Ressu", "Tyko"}
routes == [c \in {GroupChat} |-> <<"Ressu", "Tyko">>]

agents_for_chat(c) ==
    IF c \in DOMAIN routes THEN routes[c] ELSE <<default_agent>>

\* Variant: no chat counts as multi-agent.
is_multi_agent_Never(c) == FALSE

\* RoutingConfig.is_multi_agent, routing.py lines 58-60.
is_multi_agent(c) == c \in DOMAIN routes /\ Len(routes[c]) > 1

VARIABLES
    wa_messages,        \* rows of wa_messages, in rowid order
    last_timestamp,     \* wa_chats.last_timestamp per chat ("" when unset)
    last_agent_timestamp, \* wa_chats.last_agent_timestamp per chat
    wa_config,          \* wa_config['last_timestamp']
    ev,                 \* the event on_message is handling on the adapter thread
    evpc,               \* position of on_message
    loopq,              \* coroutines posted with run_coroutine_threadsafe
    timers,             \* BatchAccumulator._timers: state of the handle in the table
    orphans,            \* live timer handles no longer in _timers
    expired,            \* _timer_expired tasks created and not yet started
    locked,             \* asyncio.Lock._locked per chat
    waiters,            \* asyncio.Lock._waiters per chat (hard flag of each)
    pending_reflush,    \* BatchAccumulator._pending_reflush
    active,             \* running invocations of the flush callback per chat
    toolRows,           \* rows inserted by the send_message tool
    crashes,            \* process restarts so far
    handed,             \* rowids that were in a batch handed to the dispatcher
    lastPass,           \* per chat: the last completed dispatch pass
    lostBatch,          \* per chat: rowids of the batch in flight at a crash
    queue,              \* OutgoingQueue._queue
    connected,          \* OutgoingQueue._connected
    adapterLog,         \* calls of client.send_message, with their outcome
    failures,           \* send_message calls that raised so far
    fpc,                \* "flush" while OutgoingQueue.flush holds the lock
    attempts,           \* pops made by the running flush
    flushRec,           \* the running or last flush: entry queue, calls, result
    sendCount,          \* calls of OutgoingQueue.send from dispatch and poller
    origin,             \* per send call: where its text came from
    lastSend,           \* the last call of OutgoingQueue.send and what it did
    deliveries,         \* rows of pending_deliveries
    polling,            \* the delivery poller is running
    pollq,              \* deliveries the running poll tick still has to handle
    wa_text,            \* the text column of wa_messages, by rowid
    self_jid,           \* MessageHandler._self_jid ("" while it is None)
    run,                \* the running invocation of _handle_agent_trigger
    lastRun,            \* the last invocation that returned
    outbox,             \* calls of OutgoingQueue.send made by _dispatch_for_agent
    errors,             \* exceptions raised inside on_message: where, and
                        \* whether its except clause caught them
    owed,               \* chats with an add that no callback invocation has
                        \* followed yet
    json,               \* the JSON description given to load_routing_config
    cfg,                \* the RoutingConfig it returned
    probe,              \* the last call of a RoutingConfig method and its result
    pendingIn,          \* pending deliveries of each store
    unreadable,         \* the stores whose scan raises
    tickpos,            \* the store the poll tick scans next; 0 between ticks
    scanned,            \* the stores whose scan the latest tick started
    tickError,          \* the latest tick ended in the except clause of the loop
    tickDone,           \* a tick has ended and none has started since
    link,               \* the last of Connected/Disconnected that was handled
    _delivery_task,     \* WhatsAppConnection._delivery_task (0 for None)
    alive,              \* the delivery-poll tasks created and not cancelled
    created,            \* the number of delivery-poll tasks created so far
    startq,             \* _start_delivery_polling coroutines posted to the loop
    lastTick,           \* the last poll tick: its task and the link at that time
    adapterPc,          \* the adapter thread inside on_message: the statement
                        \* on self._db it executed last (0 outside on_message)
    loopPc,             \* the loop thread inside _handle_agent_trigger
    txn,                \* the threads with uncommitted writes on self._db
    eventsDone,         \* the events on_message has handled
    calls               \* flush callbacks that are due on the loop

pipeVars == <<wa_messages, last_timestamp, last_agent_timestamp, wa_config,
              ev, evpc, loopq, timers, orphans, expired, locked, waiters,
              pending_reflush, active, toolRows, crashes, handed,
              lastPass, lostBatch>>

outVars == <<queue, connected, adapterLog, failures, fpc, attempts, flushRec,
             sendCount, origin, lastSend, deliveries, polling, pollq>>

msgVars == <<wa_text, self_jid, run, lastRun, outbox, errors>>

routeVars == <<json, cfg, probe>>

tickVars == <<pendingIn, unreadable, tickpos, scanned, tickError, tickDone>>

pollerVars == <<link, _delivery_task, alive, created, startq, lastTick>>

threadVars == <<adapterPc, loopPc, txn, eventsDone, calls>>

liveVars == <<owed>>

sideVars == <<routeVars, tickVars, pollerVars, threadVars>>

auxVars == <<sideVars, liveVars>>

vars == <<pipeVars, outVars, msgVars, auxVars>>

\* What on_message reads from an event besides chat and time: IsFromMe and
\* whether the text (or the chat) makes it a trigger (self-chat or hard
\* mention).  A message of the account itself is given a triggering text.
EventKinds == {[is_from_me |-> FALSE, trigger |-> FALSE],
               [is_from_me |-> FALSE, trigger |-> TRUE],
               [is_from_me |-> TRUE, trigger |-> TRUE]}

NoEvent == [chat |-> "", ts |-> EmptyStr, is_from_me |-> FALSE, trigger |-> FALSE]
NoPass == [n |-> 0, batch |-> <<>>, agents |-> <<>>]

(***************************************************************************)
(* Store operations (handler.py).                                          *)
(***************************************************************************)
store_message(rows, chat, ts, fm) ==
    Append(rows, [chat |-> chat, ts |-> ts, is_from_me |-> fm])

update_chat_timestamp(tab, chat, ts) == [tab EXCEPT ![chat] = ts]

update_agent_cursor(tab, chat, ts) == [tab EXCEPT ![chat] = ts]

RowBefore(rows, i, j) ==
    LexLess(rows[i].ts, rows[j].ts) \/ (rows[i].ts = rows[j].ts /\ i <= j)

\* Variant: the query has no ORDER BY and returns rows in rowid order.
RECURSIVE OrderBy_Rowid(_, _)
OrderBy_Rowid(rows, S) ==
    IF S = {} THEN <<>>
    ELSE LET m == CHOOSE i \in S : \A j \in S : i <= j
         IN  <<m>> \o OrderBy_Rowid(rows, S \ {m})

RECURSIVE OrderBy(_, _)
OrderBy(rows, S) ==
    IF S = {} THEN <<>>
    ELSE LET m == CHOOSE i \in S : \A j \in S : RowBefore(rows, i, j)
         IN  <<m>> \o OrderBy(rows, S \ {m})

\* Variant: the rows at the cursor are selected too (timestamp >= since).
get_new_messages_for_chat_Inclusive(rows, cursor, chat) ==
    LET since == cursor[chat]
        sel == {i \in 1..Len(rows) :
                    rows[i].chat = chat /\ LexLeq(since, rows[i].ts)}
    IN  OrderBy(rows, sel)

\* get_new_messages_for_chat, handler.py lines 192-211.
get_new_messages_for_chat(rows, cursor, chat) ==
    LET since == cursor[chat]
        sel == {i \in 1..Len(rows) :
                    rows[i].chat = chat /\ LexLess(since, rows[i].ts)}
    IN  OrderBy(rows, sel)

BatchTs(rows, batch) == {rows[batch[k]].ts : k \in 1..Len(batch)}
BatchIds(batch) == {batch[k] : k \in 1..Len(batch)}

(***************************************************************************)
(* Init: the state after WhatsAppConnection.run() has built the handler    *)
(* and the accumulator on an empty database.                               *)
(***************************************************************************)
PipeInit ==
    /\ wa_messages = <<>>
    /\ last_timestamp = [c \in Chats |-> EmptyStr]
    /\ last_agent_timestamp = [c \in Chats |-> EmptyStr]
    /\ wa_config = EmptyStr
    /\ ev = NoEvent
    /\ evpc = "idle"
    /\ loopq = <<>>
    /\ timers = [c \in Chats |-> "none"]
    /\ orphans = [c \in Chats |-> 0]
    /\ expired = [c \in Chats |-> 0]
    /\ locked = [c \in Chats |-> FALSE]
    /\ waiters = [c \in Chats |-> <<>>]
    /\ pending_reflush = {}
    /\ active = [c \in Chats |-> <<>>]
    /\ toolRows = 0
    /\ crashes = 0
    /\ handed = {}
    /\ lastPass = [c \in Chats |-> NoPass]
    /\ lostBatch = [c \in Chats |-> {}]

NoFlush == [entry |-> <<>>, from |-> 0, to |-> 0, disc |-> FALSE,
            done |-> FALSE, left |-> <<>>]
NoSend == [n |-> 0, item |-> <<>>, connected |-> FALSE, raised |-> FALSE]

\* OutgoingQueue.__init__ and WhatsAppConnection.__init__.
OutInit ==
    /\ queue = <<>>
    /\ connected = FALSE
    /\ adapterLog = <<>>
    /\ failures = 0
    /\ fpc = "idle"
    /\ attempts = 0
    /\ flushRec = NoFlush
    /\ sendCount = 0
    /\ origin = <<>>
    /\ lastSend = NoSend
    /\ deliveries = <<>>
    /\ polling = FALSE
    /\ pollq = <<>>

NoRun == [chat |-> "", hard |-> FALSE, batch |-> <<>>, mentioned |-> {},
          trace |-> <<>>, cursor |-> EmptyStr, returned |-> FALSE]

\* MessageHandler.__init__ and an empty wa_messages table.
MsgInit ==
    /\ wa_text = <<>>
    /\ self_jid = ""
    /\ run = NoRun
    /\ lastRun = NoRun
    /\ outbox = <<>>
    /\ errors = <<>>

\* No routing file has been read yet.
NoConfig == [default_agent |-> <<>>, agents |-> <<>>, routes |-> <<>>]
NoJson == [exists |-> FALSE, agents |-> <<>>, default_agent |-> <<>>,
           routes |-> <<>>]
NoProbe == [op |-> "", agent |-> <<>>, chat |-> <<>>, name |-> <<>>,
            parsed |-> [agent |-> <<>>, chat |-> <<>>], listed |-> <<>>,
            multi |-> FALSE]

RouteInit ==
    /\ json = NoJson
    /\ cfg = NoConfig
    /\ probe = NoProbe

\* _get_all_delivery_dbs, connection.py lines 369-381: the bridge DB, then
\* the DB of each agent that has a data directory of its own.
Stores == <<"bridge", "Ressu", "Tyko">>

StoreSet == {Stores[k] : k \in 1..Len(Stores)}

\* The poll loop sleeps before its first tick; the stores are empty.
TickInit ==
    /\ pendingIn = [s \in StoreSet |-> 0]
    /\ unreadable = {}
    /\ tickpos = 0
    /\ scanned = {}
    /\ tickError = FALSE
    /\ tickDone = FALSE

\* WhatsAppConnection.__init__, line 99: no delivery task; no event yet.
PollerInit ==
    /\ link = "down"
    /\ _delivery_task = 0
    /\ alive = {}
    /\ created = 0
    /\ startq = 0
    /\ lastTick = [task |-> 0, link |-> "down"]

\* Both threads are outside the store; the connection has no open
\* transaction.
ThreadInit ==
    /\ adapterPc = 0
    /\ loopPc = "idle"
    /\ txn = {}
    /\ eventsDone = 0
    /\ calls = 0

LiveInit == owed = {}

Init ==
    PipeInit /\ OutInit /\ MsgInit /\ RouteInit /\ TickInit /\ PollerInit
        /\ ThreadInit /\ LiveInit

(***************************************************************************)
(* MessageHandler.on_message, on the adapter thread.  Each store call      *)
(* commits on its own, so the event loop can run between them.             *)
(***************************************************************************)
OnMessageStore(chat, t, fm, trig) ==
    /\ evpc = "idle"
    /\ Len(wa_messages) - toolRows < MaxMsgs
    /\ LET ts == IsoFormat(t)
       IN  /\ wa_messages' = store_message(wa_messages, chat, ts, fm)
           /\ ev' = [chat |-> chat, ts |-> ts, is_from_me |-> fm, trigger |-> trig]
    /\ evpc' = "chat_ts"
    /\ UNCHANGED <<last_timestamp, last_agent_timestamp, wa_config, loopq,
                   timers, orphans, expired, locked, waiters,
                   pending_reflush, active, toolRows, crashes, handed, lastPass, lostBatch>>

OnMessageChatTs ==
    /\ evpc = "chat_ts"
    /\ last_timestamp' = update_chat_timestamp(last_timestamp, ev.chat, ev.ts)
    /\ evpc' = "classify"
    /\ UNCHANGED <<wa_messages, last_agent_timestamp, wa_config, ev, loopq,
                   timers, orphans, expired, locked, waiters,
                   pending_reflush, active, toolRows, crashes, handed, lastPass, lostBatch>>

OnMessageClassify ==
    /\ evpc = "classify"
    /\ wa_config' = ev.ts
    /\ loopq' = IF ev.is_from_me THEN loopq
                ELSE IF ev.trigger
                     THEN Append(loopq, [kind |-> "flush_now", chat |-> ev.chat])
                     ELSE Append(loopq, [kind |-> "add", chat |-> ev.chat])
    /\ ev' = NoEvent
    /\ evpc' = "idle"
    /\ UNCHANGED <<wa_messages, last_timestamp, last_agent_timestamp,
                   timers, orphans, expired, locked, waiters,
                   pending_reflush, active, toolRows, crashes, handed, lastPass, lostBatch>>

(***************************************************************************)
(* BatchAccumulator (handler.py), on the event loop.                       *)
(*                                                                         *)
(* asyncio.Lock: acquire() takes the lock at once when it is free and      *)
(* nobody waits; otherwise the caller joins _waiters.  release() clears    *)
(* _locked and resolves the first waiter's future; that waiter sets        *)
(* _locked again only when the loop resumes it.                            *)
(***************************************************************************)
\* Variant: _do_flush calls the callback without taking the lock.
LockAvailable_NoLock(c) == TRUE

LockAvailable(c) == ~locked[c] /\ waiters[c] = <<>>

Woken(c) == ~locked[c] /\ waiters[c] # <<>>

\* Variant: the re-flush flag is cleared on release and no timer is
\* scheduled for it.
ReleaseAndReflush_NoTimer(c, tab, orph, wq) ==
    /\ locked' = [locked EXCEPT ![c] = FALSE]
    /\ waiters' = [waiters EXCEPT ![c] = wq]
    /\ pending_reflush' = pending_reflush \ {c}
    /\ timers' = tab
    /\ orphans' = orph

\* _do_flush after the lock is released: lines 93-99.  tab and orph are the
\* timer table and the orphaned handles as the caller left them, wq the
\* remaining waiters.
ReleaseAndReflush(c, tab, orph, wq) ==
    /\ locked' = [locked EXCEPT ![c] = FALSE]
    /\ waiters' = [waiters EXCEPT ![c] = wq]
    /\ IF c \in pending_reflush
       THEN /\ pending_reflush' = pending_reflush \ {c}
            /\ timers' = [tab EXCEPT ![c] = "live"]
            /\ orphans' = [orph EXCEPT ![c] = @ + (IF tab[c] = "live" THEN 1 ELSE 0)]
       ELSE /\ pending_reflush' = pending_reflush
            /\ timers' = tab
            /\ orphans' = orph

\* The callback (_handle_agent_trigger) up to its first suspension: lines
\* 260-265, then the first dispatch_to_agent is awaited.
StartCallback(c, hard, tab, orph, wq) ==
    LET batch == get_new_messages_for_chat(wa_messages, last_agent_timestamp, c)
    IN  IF batch = <<>>
        THEN /\ ReleaseAndReflush(c, tab, orph, wq)
             /\ UNCHANGED <<active, handed>>
        ELSE /\ locked' = [locked EXCEPT ![c] = TRUE]
             /\ waiters' = [waiters EXCEPT ![c] = wq]
             /\ active' = [active EXCEPT ![c] =
                              Append(@, [hard |-> hard, batch |-> batch,
                                         done |-> <<>>])]
             /\ handed' = handed \cup BatchIds(batch)
             /\ timers' = tab
             /\ orphans' = orph
             /\ UNCHANGED pending_reflush

\* Variant: a flush that finds the lock taken sets the re-flush flag and
\* gives up instead of waiting for the lock.
DoFlush_Collapse(c, hard, tab, orph) ==
    IF LockAvailable(c)
    THEN StartCallback(c, hard, tab, orph, waiters[c])
    ELSE /\ pending_reflush' = pending_reflush \cup {c}
         /\ timers' = tab
         /\ orphans' = orph
         /\ UNCHANGED <<locked, waiters, active, handed>>

\* _do_flush: lines 89-92.
DoFlush(c, hard, tab, orph) ==
    IF LockAvailable(c)
    THEN StartCallback(c, hard, tab, orph, waiters[c])
    ELSE /\ waiters' = [waiters EXCEPT ![c] = Append(@, hard)]
         /\ timers' = tab
         /\ orphans' = orph
         /\ UNCHANGED <<locked, pending_reflush, active, handed>>

\* Variant: every add schedules a timer and stores it over the one in the
\* table.
TimerAbsent_Always(c) == TRUE

\* chat_jid not in self._timers (line 72)
TimerAbsent(c) == timers[c] = "none"

\* _add_async: lines 67-77.  Line 77 stores the new handle over whatever the
\* table holds.
AddAsync ==
    /\ loopq # <<>>
    /\ Head(loopq).kind = "add"
    /\ loopq' = Tail(loopq)
    /\ LET c == Head(loopq).chat
       IN  IF locked[c]
           THEN /\ pending_reflush' = pending_reflush \cup {c}
                /\ UNCHANGED <<timers, orphans>>
           ELSE /\ IF TimerAbsent(c)
                   THEN /\ timers' = [timers EXCEPT ![c] = "live"]
                        /\ orphans' = [orphans EXCEPT ![c] =
                                           @ + (IF timers[c] = "live" THEN 1 ELSE 0)]
                   ELSE UNCHANGED <<timers, orphans>>
                /\ UNCHANGED pending_reflush
    /\ UNCHANGED <<wa_messages, last_timestamp, last_agent_timestamp, wa_config,
                   ev, evpc, expired, locked, waiters, active,
                   toolRows, crashes, handed, lastPass, lostBatch>>

\* flush_now: lines 79-83.  pop(...).cancel() removes the handle; cancelling
\* a handle that already fired does not stop its _timer_expired task.
\* Variant: the handle is popped from the table and not cancelled.
CancelHandle_Forgotten(tab, orph, c) ==
    [orph EXCEPT ![c] = @ + (IF tab[c] = "live" THEN 1 ELSE 0)]

\* TimerHandle.cancel() (line 82): a handle that has not fired never will,
\* so it does not join the handles that are still to fire.
CancelHandle(tab, orph, c) == orph

FlushNow ==
    /\ loopq # <<>>
    /\ Head(loopq).kind = "flush_now"
    /\ loopq' = Tail(loopq)
    /\ LET c == Head(loopq).chat
       IN  DoFlush(c, TRUE, [timers EXCEPT ![c] = "none"],
                   CancelHandle(timers, orphans, c))
    /\ UNCHANGED <<wa_messages, last_timestamp, last_agent_timestamp, wa_config,
                   ev, evpc, expired, toolRows, crashes, lastPass,
                   lostBatch>>

\* loop.call_later callback: the handle in the table fires.
TimerFire(c) ==
    /\ timers[c] = "live"
    /\ timers' = [timers EXCEPT ![c] = "fired"]
    /\ expired' = [expired EXCEPT ![c] = @ + 1]
    /\ UNCHANGED <<wa_messages, last_timestamp, last_agent_timestamp, wa_config,
                   ev, evpc, loopq, orphans, locked, waiters, pending_reflush,
                   active, toolRows, crashes, handed, lastPass, lostBatch>>

\* loop.call_later callback of a handle that was dropped from the table
\* without being cancelled.
OrphanFire(c) ==
    /\ orphans[c] > 0
    /\ orphans' = [orphans EXCEPT ![c] = @ - 1]
    /\ expired' = [expired EXCEPT ![c] = @ + 1]
    /\ UNCHANGED <<wa_messages, last_timestamp, last_agent_timestamp, wa_config,
                   ev, evpc, loopq, timers, locked, waiters, pending_reflush,
                   active, toolRows, crashes, handed, lastPass, lostBatch>>

\* _timer_expired: lines 85-87.  pop() drops whatever handle the table
\* holds, without cancelling it.
TimerExpired(c) ==
    /\ expired[c] > 0
    /\ expired' = [expired EXCEPT ![c] = @ - 1]
    /\ DoFlush(c, FALSE, [timers EXCEPT ![c] = "none"],
               [orphans EXCEPT ![c] = @ + (IF timers[c] = "live" THEN 1 ELSE 0)])
    /\ UNCHANGED <<wa_messages, last_timestamp, last_agent_timestamp, wa_config,
                   ev, evpc, loopq, toolRows, crashes, lastPass,
                   lostBatch>>

\* The first waiter of the lock is resumed and enters the callback.
WaiterResume(c) ==
    /\ Woken(c)
    /\ StartCallback(c, Head(waiters[c]), timers, orphans, Tail(waiters[c]))
    /\ UNCHANGED <<wa_messages, last_timestamp, last_agent_timestamp, wa_config,
                   ev, evpc, loopq, expired, toolRows, crashes, lastPass,
                   lostBatch>>

(***************************************************************************)
(* WhatsAppConnection._handle_agent_trigger (connection.py): the await of  *)
(* dispatch_to_agent for the next agent returns or raises; the exception   *)
(* is caught inside the loop, so both outcomes continue the same way.      *)
(***************************************************************************)
RemoveAt(s, k) == SubSeq(s, 1, k - 1) \o SubSeq(s, k + 1, Len(s))

\* Variant: the cursor write sits inside the for loop.
CursorWriteDue_InLoop(done, ags) == TRUE

\* The cursor is written after the for loop (lines 288-291).
CursorWriteDue(done, ags) == Len(done) = Len(ags)

AgentReturn(c, k) ==
    /\ k \in 1..Len(active[c])
    /\ LET r == active[c][k]
           ags == agents_for_chat(c)
           done2 == Append(r.done, ags[Len(r.done) + 1])
           last_msg_ts == wa_messages[r.batch[Len(r.batch)]].ts
       IN  /\ last_agent_timestamp' =
                  IF CursorWriteDue(done2, ags)
                  THEN update_agent_cursor(last_agent_timestamp, c, last_msg_ts)
                  ELSE last_agent_timestamp
           /\ IF Len(done2) < Len(ags)
              THEN /\ active' = [active EXCEPT ![c][k].done = done2]
                   /\ UNCHANGED <<locked, waiters, pending_reflush, timers,
                                  orphans, lastPass>>
              ELSE /\ active' = [active EXCEPT ![c] = RemoveAt(@, k)]
                   /\ lastPass' = [lastPass EXCEPT ![c] =
                                      [n |-> @.n + 1, batch |-> r.batch,
                                       agents |-> done2]]
                   /\ ReleaseAndReflush(c, timers, orphans, waiters[c])
    /\ UNCHANGED <<wa_messages, last_timestamp, wa_config, ev, evpc, loopq,
                   expired, toolRows, crashes, handed, lostBatch>>

(***************************************************************************)
(* The send_message tool (__init__.py lines 104-114), called by an agent   *)
(* while its dispatch is running: inserts a row with is_from_me = 1 and    *)
(* SQLite's datetime('now').                                               *)
(***************************************************************************)
send_message(chat, now) ==
    /\ \E c \in Chats : active[c] # <<>>
    /\ toolRows < MaxToolRows
    /\ wa_messages' = store_message(wa_messages, chat, SqlNow(now), TRUE)
    /\ toolRows' = toolRows + 1
    /\ UNCHANGED <<last_timestamp, last_agent_timestamp, wa_config, ev, evpc,
                   loopq, timers, orphans, expired, locked, waiters,
                   pending_reflush, active, crashes, handed, lastPass, lostBatch>>

(***************************************************************************)
(* The process stops and is started again: everything in memory is lost,   *)
(* the database is kept.                                                   *)
(***************************************************************************)
Crash ==
    /\ crashes < MaxCrashes
    /\ crashes' = crashes + 1
    /\ ev' = NoEvent
    /\ evpc' = "idle"
    /\ loopq' = <<>>
    /\ timers' = [c \in Chats |-> "none"]
    /\ orphans' = [c \in Chats |-> 0]
    /\ expired' = [c \in Chats |-> 0]
    /\ locked' = [c \in Chats |-> FALSE]
    /\ waiters' = [c \in Chats |-> <<>>]
    /\ pending_reflush' = {}
    /\ active' = [c \in Chats |-> <<>>]
    /\ lostBatch' = [c \in Chats |->
                        UNION {BatchIds(active[c][k].batch) : k \in 1..Len(active[c])}]
    /\ UNCHANGED <<wa_messages, last_timestamp, last_agent_timestamp, wa_config,
                   toolRows, handed, lastPass>>

Next ==
    \/ \E chat \in Chats, t \in Epochs, e \in EventKinds :
           OnMessageStore(chat, t, e.is_from_me, e.trigger) /\ UNCHANGED <<outVars, msgVars, auxVars>>
    \/ OnMessageChatTs /\ UNCHANGED <<outVars, msgVars, auxVars>>
    \/ OnMessageClassify /\ UNCHANGED <<outVars, msgVars, auxVars>>
    \/ AddAsync /\ UNCHANGED <<outVars, msgVars, auxVars>>
    \/ FlushNow /\ UNCHANGED <<outVars, msgVars, auxVars>>
    \/ \E c \in Chats : TimerFire(c) /\ UNCHANGED <<outVars, msgVars, auxVars>>
    \/ \E c \in Chats : OrphanFire(c) /\ UNCHANGED <<outVars, msgVars, auxVars>>
    \/ \E c \in Chats : TimerExpired(c) /\ UNCHANGED <<outVars, msgVars, auxVars>>
    \/ \E c \in Chats : WaiterResume(c) /\ UNCHANGED <<outVars, msgVars, auxVars>>
    \/ \E c \in Chats : \E k \in 1..Len(active[c]) :
           AgentReturn(c, k) /\ UNCHANGED <<outVars, msgVars, auxVars>>
    \/ \E chat \in Chats, now \in NowValues :
           send_message(chat, now) /\ UNCHANGED <<outVars, msgVars, auxVars>>
    \/ Crash /\ UNCHANGED <<outVars, msgVars, auxVars>>

Spec == Init /\ [][Next]_vars

(***************************************************************************)
(* The accumulator with a callback that may raise, under fair scheduling.  *)
(* owed holds the chats for which _add_async has run and no invocation of  *)
(* the flush callback has begun since.  The event loop runs every          *)
(* coroutine that is ready and every timer that is due, the adapter thread *)
(* finishes the event it is handling, and a running callback returns or    *)
(* raises; new events and the choice between returning and raising are the *)
(* environment's.                                                          *)
(***************************************************************************)
NextAdd == IF loopq # <<>> THEN Head(loopq).chat ELSE ""

\* _flush_callback raises inside `async with lock` (handler.py line 92):
\* update_agent_cursor fails after the last agent was dispatched
\* (connection.py lines 288-291).  __aexit__ releases the lock and the
\* exception leaves _do_flush before lines 93-99.
CallbackRaise(c, k) ==
    /\ k \in 1..Len(active[c])
    /\ Len(active[c][k].done) = Len(agents_for_chat(c)) - 1
    /\ active' = [active EXCEPT ![c] = RemoveAt(@, k)]
    /\ locked' = [locked EXCEPT ![c] = FALSE]
    /\ UNCHANGED <<wa_messages, last_timestamp, last_agent_timestamp, wa_config,
                   ev, evpc, loopq, timers, orphans, expired, waiters,
                   pending_reflush, toolRows, crashes, handed, lastPass,
                   lostBatch>>

Begins(c) == IF LockAvailable(c) THEN owed \ {c} ELSE owed

LiveOnMessage ==
    /\ \/ \E chat \in Chats, t \in Epochs, e \in EventKinds :
               OnMessageStore(chat, t, e.is_from_me, e.trigger)
       \/ OnMessageChatTs
       \/ OnMessageClassify
    /\ UNCHANGED <<owed, outVars, msgVars, sideVars>>

LiveAdapter ==
    /\ OnMessageChatTs \/ OnMessageClassify
    /\ UNCHANGED <<owed, outVars, msgVars, sideVars>>

LiveAdd ==
    /\ AddAsync
    /\ owed' = owed \cup {NextAdd}
    /\ UNCHANGED <<outVars, msgVars, sideVars>>

LiveFlushNow ==
    /\ FlushNow
    /\ owed' = Begins(NextAdd)
    /\ UNCHANGED <<outVars, msgVars, sideVars>>

LiveTimerFire(c) ==
    /\ TimerFire(c) \/ OrphanFire(c)
    /\ UNCHANGED <<owed, outVars, msgVars, sideVars>>

LiveTimerExpired(c) ==
    /\ TimerExpired(c)
    /\ owed' = Begins(c)
    /\ UNCHANGED <<outVars, msgVars, sideVars>>

LiveWaiterResume(c) ==
    /\ WaiterResume(c)
    /\ owed' = owed \ {c}
    /\ UNCHANGED <<outVars, msgVars, sideVars>>

LiveCallbackEnds(c) ==
    /\ \E k \in 1..Len(active[c]) : AgentReturn(c, k) \/ CallbackRaise(c, k)
    /\ UNCHANGED <<owed, outVars, msgVars, sideVars>>

LiveNext ==
    \/ LiveOnMessage
    \/ LiveAdd
    \/ LiveFlushNow
    \/ \E c \in Chats : LiveTimerFire(c)
    \/ \E c \in Chats : LiveTimerExpired(c)
    \/ \E c \in Chats : LiveWaiterResume(c)
    \/ \E c \in Chats : LiveCallbackEnds(c)

LiveFairness ==
    /\ WF_vars(LiveAdapter)
    /\ WF_vars(LiveAdd)
    /\ WF_vars(LiveFlushNow)
    /\ \A c \in Chats :
           /\ WF_vars(LiveTimerFire(c))
           /\ WF_vars(LiveTimerExpired(c))
           /\ WF_vars(LiveWaiterResume(c))
           /\ WF_vars(LiveCallbackEnds(c))

LiveSpec == Init /\ [][LiveNext]_vars /\ LiveFairness

(***************************************************************************)
(* Outbound side.  Texts are sequences of tokens; the tags <reply> and     *)
(* </reply> are single tokens.                                             *)
(***************************************************************************)
OPEN == "<reply>"
CLOSE == "</reply>"
NL == "\n"
IsSpace(t) == t \in {" ", NL}
None == <<>>

Min(S) == CHOOSE x \in S : \A y \in S : x <= y

\* re.findall(r"<reply>(.*?)</reply>", text, re.DOTALL)
RECURSIVE FindAll(_)
FindAll(text) ==
    LET opens == {i \in 1..Len(text) : text[i] = OPEN}
    IN  IF opens = {} THEN <<>>
        ELSE LET i == Min(opens)
                 closes == {j \in (i + 1)..Len(text) : text[j] = CLOSE}
             IN  IF closes = {} THEN <<>>
                 ELSE LET j == Min(closes)
                      IN  <<SubSeq(text, i + 1, j - 1)>>
                              \o FindAll(SubSeq(text, j + 1, Len(text)))

RECURSIVE LStrip(_)
LStrip(t) == IF t # <<>> /\ IsSpace(Head(t)) THEN LStrip(Tail(t)) ELSE t

RECURSIVE RStrip(_)
RStrip(t) ==
    IF t # <<>> /\ IsSpace(t[Len(t)]) THEN RStrip(SubSeq(t, 1, Len(t) - 1)) ELSE t

Strip(t) == RStrip(LStrip(t))

RECURSIVE JoinNL(_)
JoinNL(parts) ==
    IF parts = <<>> THEN <<>>
    ELSE IF Len(parts) = 1 THEN parts[1]
    ELSE parts[1] \o <<NL>> \o JoinNL(Tail(parts))

NonEmpty(m) == m # <<>>

\* _extract_reply, connection.py lines 52-67.
_extract_reply(text) ==
    LET matches == FindAll(text)
        stripped == [k \in 1..Len(matches) |-> Strip(matches[k])]
        filtered == SelectSeq(stripped, NonEmpty)
    IN  IF filtered # <<>> THEN JoinNL(filtered) ELSE None

\* f"[{agent.name}]: {text}"
Prefixed(agent, text) == <<"[", agent, "]: ">> \o text

\* Outputs an agent may produce, and messages of pending deliveries.
AgentOutputs ==
    { <<"thinking">>,
      <<"thinking", NL, OPEN, " ", "Hi", NL, CLOSE, "more">>,
      <<OPEN, "Hi", CLOSE, NL, OPEN, " ", CLOSE, OPEN, "Yo", CLOSE>>,
      <<OPEN, " ", NL, CLOSE>> }

DeliveryMessages == { <<"done">>, <<"thinking", OPEN, "done", CLOSE>> }

\* Conversation names: "wa-" + lower(agent name) + "-" + chat, or the legacy
\* "wa-" + chat.
Lower(name) == IF name = "Ressu" THEN "ressu"
               ELSE IF name = "Tyko" THEN "tyko" ELSE name

agentOrder == <<"Ressu", "Tyko">>

conversation_name(agent, chat) == <<"wa-", Lower(agent), "-", chat>>

StartsWith(t, prefix) ==
    Len(t) >= Len(prefix) /\ SubSeq(t, 1, Len(prefix)) = prefix

ChatOf(rest) == IF rest = <<>> THEN "" ELSE rest[1]

\* RoutingConfig.parse_conversation, routing.py lines 74-83.
parse_conversation(conversation) ==
    LET hits == {k \in 1..Len(agentOrder) :
                    StartsWith(conversation, <<"wa-", Lower(agentOrder[k]), "-">>)}
    IN  IF hits = {} THEN [agent |-> "", chat |-> ""]
        ELSE [agent |-> agentOrder[Min(hits)],
              chat |-> ChatOf(SubSeq(conversation, 4, Len(conversation)))]

\* str.removeprefix("wa-")
RemovePrefixWa(conversation) ==
    IF StartsWith(conversation, <<"wa-">>) THEN Tail(conversation) ELSE conversation

Conversations ==
    { conversation_name("Tyko", GroupChat),
      conversation_name("Ressu", DirectChat),
      <<"wa-", GroupChat>>,
      <<"wa-", DirectChat>> }

(***************************************************************************)
(* OutgoingQueue (queue.py).                                               *)
(***************************************************************************)
\* Variant: a failed send is dropped instead of queued.
OnSendFailure_Drop(q, item) == q

\* send, lines 81-87: the except branch.
OnSendFailure(q, item) == Append(q, item)

\* Variant: a message that was sent is queued all the same.
OnSendSuccess_Keep(q, item) == Append(q, item)

\* send, lines 73-80: send_message returned; the queue is left as it is.
OnSendSuccess(q, item) == q

\* Variant: flush takes the newest entry (pop) instead of the oldest.
PopLeft_Right(q) == [item |-> q[Len(q)], rest |-> SubSeq(q, 1, Len(q) - 1)]

\* flush, line 96: item = self._queue.popleft()
PopLeft(q) == [item |-> Head(q), rest |-> Tail(q)]

\* send never lets an exception of send_message escape (except Exception).
SendRaises(ok) == FALSE

\* OutgoingQueue.send(client, item.jid, item.text) on the queue q, lines
\* 61-87; ok is the outcome of client.send_message when it is called.
Send(q, item, ok) ==
    /\ ok \/ failures < MaxFailures
    /\ IF ~connected
       THEN /\ queue' = Append(q, item)
            /\ UNCHANGED <<adapterLog, failures>>
       ELSE /\ adapterLog' = Append(adapterLog,
                                    [id |-> item.id, jid |-> item.jid,
                                     text |-> item.text, ok |-> ok])
            /\ queue' = IF ok THEN OnSendSuccess(q, item)
                        ELSE OnSendFailure(q, item)
            /\ failures' = IF ok THEN failures ELSE failures + 1
    /\ lastSend' = [n |-> lastSend.n + 1, item |-> item, connected |-> connected,
                    raised |-> connected /\ SendRaises(ok)]

\* _dispatch_for_agent, connection.py lines 344-352: the agent's output is
\* filtered and the reply, if any, handed to the outbound queue.
DispatchForAgent(chat, agent, full_text, ok) ==
    /\ fpc = "idle"
    /\ sendCount < MaxSends
    /\ \E k \in 1..Len(agents_for_chat(chat)) : agents_for_chat(chat)[k] = agent
    /\ LET is_multi == Len(agents_for_chat(chat)) > 1
           extracted == _extract_reply(full_text)
           text == IF is_multi THEN Prefixed(agent, extracted) ELSE extracted
       IN  /\ extracted # None
           /\ sendCount' = sendCount + 1
           /\ origin' = Append(origin, [path |-> "dispatch", src |-> full_text,
                                        agent |-> agent, chat |-> chat])
           /\ Send(queue, [id |-> sendCount + 1, jid |-> chat, text |-> text], ok)
    /\ UNCHANGED <<connected, fpc, attempts, flushRec, deliveries, polling, pollq>>

\* The agent side inserts a row into pending_deliveries.
CreateDelivery(conversation, message) ==
    /\ Len(deliveries) < MaxDeliveries
    /\ deliveries' = Append(deliveries,
                            [conversation |-> conversation, message |-> message,
                             status |-> "pending", error |-> ""])
    /\ UNCHANGED <<queue, connected, adapterLog, failures, fpc, attempts,
                   flushRec, sendCount, origin, lastSend, polling, pollq>>

\* _process_deliveries_from_db, lines 387-390: a poll tick reads the pending
\* rows in id order.
PollStart ==
    /\ polling
    /\ pollq = <<>>
    /\ LET pending == {i \in 1..Len(deliveries) : deliveries[i].status = "pending"}
       IN  /\ pending # {}
           /\ pollq' = SelectSeq([i \in 1..Len(deliveries) |-> i],
                                 LAMBDA i : i \in pending)
    /\ UNCHANGED <<queue, connected, adapterLog, failures, fpc, attempts,
                   flushRec, sendCount, origin, lastSend, deliveries, polling>>

\* _process_deliveries_from_db, lines 392-417: one delivery of the tick.
PollDeliver(ok) ==
    /\ pollq # <<>>
    /\ fpc = "idle"
    /\ sendCount < MaxSends
    /\ LET i == Head(pollq)
           d == deliveries[i]
           parsed == parse_conversation(d.conversation)
           legacy == parsed.agent = "" \/ parsed.chat = ""
           chat_jid_str == IF legacy THEN ChatOf(RemovePrefixWa(d.conversation))
                           ELSE parsed.chat
           agent == IF legacy THEN default_agent ELSE parsed.agent
           message == IF is_multi_agent(chat_jid_str)
                      THEN Prefixed(agent, d.message) ELSE d.message
       IN  /\ sendCount' = sendCount + 1
           /\ origin' = Append(origin, [path |-> "poller", src |-> d.message,
                                        agent |-> agent, chat |-> chat_jid_str])
           /\ Send(queue, [id |-> sendCount + 1, jid |-> chat_jid_str,
                           text |-> message], ok)
           /\ deliveries' =
                  [deliveries EXCEPT ![i] =
                      IF connected /\ SendRaises(ok)
                      THEN [@ EXCEPT !.status = "failed", !.error = "send failed"]
                      ELSE [@ EXCEPT !.status = "delivered"]]
    /\ pollq' = Tail(pollq)
    /\ UNCHANGED <<connected, fpc, attempts, flushRec, polling>>

\* on_connected, lines 174-190, up to the call of flush; flush returns at
\* once when the queue is empty (lines 91-93).
OnConnected ==
    /\ fpc = "idle"
    /\ connected' = TRUE
    /\ IF queue = <<>>
       THEN /\ polling' = TRUE
            /\ UNCHANGED <<fpc, attempts, flushRec>>
       ELSE /\ fpc' = "flush"
            /\ attempts' = 0
            /\ flushRec' = [entry |-> queue, from |-> Len(adapterLog),
                            to |-> Len(adapterLog), disc |-> FALSE,
                            done |-> FALSE, left |-> <<>>]
            /\ UNCHANGED polling
    /\ UNCHANGED <<queue, adapterLog, failures, sendCount, origin, lastSend,
                   deliveries, pollq>>

\* One round of the while loop of flush (lines 95-97); when the queue is
\* empty flush returns and on_connected starts the delivery poller.
FlushIter(ok) ==
    /\ fpc = "flush"
    /\ attempts < MaxFlushIter
    /\ attempts' = attempts + 1
    /\ LET p == PopLeft(queue)
       IN  /\ Send(p.rest, p.item, ok)
           /\ flushRec' =
                  [flushRec EXCEPT
                      !.to = Len(adapterLog'),
                      !.disc = @ \/ ~connected,
                      !.done = (queue' = <<>>),
                      !.left = queue']
    /\ fpc' = IF queue' = <<>> THEN "idle" ELSE "flush"
    /\ polling' = IF queue' = <<>> THEN TRUE ELSE polling
    /\ UNCHANGED <<connected, sendCount, origin, deliveries, pollq>>

\* on_disconnected, lines 192-198.
OnDisconnected ==
    /\ connected \/ polling
    /\ connected' = FALSE
    /\ polling' = FALSE
    /\ UNCHANGED <<queue, adapterLog, failures, fpc, attempts, flushRec,
                   sendCount, origin, lastSend, deliveries, pollq>>

OutNext ==
    \/ \E chat \in Chats, agent \in agents, o \in AgentOutputs, ok \in BOOLEAN :
           DispatchForAgent(chat, agent, o, ok) /\ UNCHANGED <<pipeVars, msgVars, auxVars>>
    \/ \E conv \in Conversations, m \in DeliveryMessages :
           CreateDelivery(conv, m) /\ UNCHANGED <<pipeVars, msgVars, auxVars>>
    \/ PollStart /\ UNCHANGED <<pipeVars, msgVars, auxVars>>
    \/ \E ok \in BOOLEAN : PollDeliver(ok) /\ UNCHANGED <<pipeVars, msgVars, auxVars>>
    \/ OnConnected /\ UNCHANGED <<pipeVars, msgVars, auxVars>>
    \/ \E ok \in BOOLEAN : FlushIter(ok) /\ UNCHANGED <<pipeVars, msgVars, auxVars>>
    \/ OnDisconnected /\ UNCHANGED <<pipeVars, msgVars, auxVars>>

OutSpec == Init /\ [][OutNext]_vars

\* The outbound side under fair scheduling: the while loop of a running
\* flush goes on and the delivery poller keeps ticking.  Connected and
\* Disconnected events, agent replies and new deliveries are the
\* environment's and may stop coming.
FlushRuns ==
    /\ \E ok \in BOOLEAN : FlushIter(ok)
    /\ UNCHANGED <<pipeVars, msgVars, auxVars>>

PollerRuns ==
    /\ PollStart \/ \E ok \in BOOLEAN : PollDeliver(ok)
    /\ UNCHANGED <<pipeVars, msgVars, auxVars>>

OutFairSpec == OutSpec /\ WF_vars(FlushRuns) /\ WF_vars(PollerRuns)

(***************************************************************************)
(* Properties of the inbound pipeline.                                     *)
(***************************************************************************)

\* C1: for every chat at most one invocation of the batch-flush callback is
\* executing at any instant, under every interleaving of add, flush_now and
\* timer expiry.
C1_SingleFlight == \A c \in Chats : Len(active[c]) <= 1

\* A flush_now or timer flush is waiting for the lock while the callback of
\* an earlier flush of the same chat is running.
C1_Witness ==
    \E c \in Chats : Len(active[c]) = 1 /\ locked[c] /\ waiters[c] # <<>>

\* C2: the agent cursor of a chat is written only by the step that ends a
\* dispatch pass in which every agent mapped to the chat was attempted; when
\* the process stops the cursor is unchanged, and every batch that was in
\* flight is returned again by get_new_messages_for_chat.
C2_CursorWrite ==
    \A c \in Chats :
        last_agent_timestamp'[c] # last_agent_timestamp[c] =>
            /\ lastPass'[c].n = lastPass[c].n + 1
            /\ lastPass'[c].agents = agents_for_chat(c)

C2_CrashReplays ==
    crashes' # crashes =>
        /\ last_agent_timestamp' = last_agent_timestamp
        /\ \A c \in Chats : \A k \in 1..Len(active[c]) :
               BatchIds(active[c][k].batch) \subseteq
                   BatchIds(get_new_messages_for_chat(
                                wa_messages', last_agent_timestamp', c))

C2_CursorAfterAllAgents == [][C2_CursorWrite /\ C2_CrashReplays]_vars

\* The process stopped between the agents of the group chat, and the flush
\* after the restart is dispatching the lost batch again.
C2_Witness ==
    /\ crashes = 1
    /\ lostBatch[GroupChat] # {}
    /\ lastPass[GroupChat].n = 0
    /\ Len(active[GroupChat]) = 1
    /\ lostBatch[GroupChat] \subseteq BatchIds(active[GroupChat][1].batch)
    /\ Len(active[GroupChat][1].done) = 1

\* Nothing is scheduled or running: no event in on_message, no posted
\* coroutine, no timer, no flush.
Quiescent ==
    /\ evpc = "idle"
    /\ loopq = <<>>
    /\ pending_reflush = {}
    /\ \A c \in Chats :
           /\ timers[c] = "none"
           /\ orphans[c] = 0
           /\ expired[c] = 0
           /\ active[c] = <<>>
           /\ waiters[c] = <<>>

\* C3: no message is lost to the agent.  Once every timer has fired and every
\* dispatch has returned (and the process never stopped), every row stored
\* by on_message with is_from_me = false has been in a batch handed to the
\* dispatcher, whatever its timestamp.
C3_NoMessageLost ==
    (Quiescent /\ crashes = 0) =>
        \A i \in 1..Len(wa_messages) :
            ~wa_messages[i].is_from_me => i \in handed

\* C4: in every reachable state and for every chat,
\* last_agent_timestamp <= last_timestamp in string order.
C4_CursorOrder ==
    \A c \in Chats : LexLeq(last_agent_timestamp[c], last_timestamp[c])

MaxTs(T) == CHOOSE t \in T : \A u \in T : LexLeq(u, t)

\* C5: the step that completes a dispatch pass of a chat for the non-empty
\* batch B leaves the chat's last_agent_timestamp at the greatest timestamp
\* of B.
C5_CursorIsBatchMax ==
    [][\A c \in Chats :
           lastPass'[c].n # lastPass[c].n =>
               /\ lastPass'[c].batch # <<>>
               /\ last_agent_timestamp'[c] =
                      MaxTs(BatchTs(wa_messages, lastPass'[c].batch))]_vars

\* A pass completed for a batch whose rows were stored out of timestamp
\* order, and the cursor stands at the batch's greatest timestamp.
C5_Witness ==
    \E c \in Chats :
        /\ lastPass[c].n > 0
        /\ Len(lastPass[c].batch) >= 2
        /\ lastPass[c].batch[1] > lastPass[c].batch[2]
        /\ wa_messages[lastPass[c].batch[1]].ts # wa_messages[lastPass[c].batch[2]].ts
        /\ last_agent_timestamp[c] = MaxTs(BatchTs(wa_messages, lastPass[c].batch))

(***************************************************************************)
(* Properties of the outbound side.                                        *)
(***************************************************************************)

\* The <reply> spans of a text, stated by position: a span starts at an
\* opening tag that no earlier unclosed opening tag precedes and that has a
\* closing tag after it; it ends at the first closing tag after its start.
SpanStarts(text) ==
    {i \in 1..Len(text) :
        /\ text[i] = OPEN
        /\ \E j \in (i + 1)..Len(text) : text[j] = CLOSE
        /\ ~\E k \in 1..(i - 1) :
               /\ text[k] = OPEN
               /\ \A m \in (k + 1)..(i - 1) : text[m] # CLOSE}

SpanBody(text, i) ==
    LET j == Min({m \in (i + 1)..Len(text) : text[m] = CLOSE})
        body == SubSeq(text, i + 1, j - 1)
        keep == {m \in 1..Len(body) :
                    /\ \E a \in 1..m : ~IsSpace(body[a])
                    /\ \E b \in m..Len(body) : ~IsSpace(body[b])}
    IN  IF keep = {} THEN <<>>
        ELSE SubSeq(body, Min(keep), CHOOSE h \in keep : \A m \in keep : m <= h)

RECURSIVE ReplyText(_, _)
ReplyText(text, S) ==
    IF S = {} THEN <<>>
    ELSE LET i == Min(S)
             rest == ReplyText(text, S \ {i})
         IN  IF SpanBody(text, i) = <<>> THEN rest
             ELSE IF rest = <<>> THEN SpanBody(text, i)
             ELSE SpanBody(text, i) \o <<NL>> \o rest

\* C6: every text passed to the adapter's send_message, from the batch
\* dispatch or from the delivery poller, is the newline-join of the trimmed
\* non-empty <reply> spans of the agent output it comes from, optionally
\* prefixed with "[AgentName]: "; nothing is sent for an output without a
\* non-empty span.
C6_OnlyReplySpans ==
    \A k \in 1..Len(adapterLog) :
        LET e == adapterLog[k]
            o == origin[e.id]
            r == ReplyText(o.src, SpanStarts(o.src))
        IN  /\ r # <<>>
            /\ e.text = r \/ e.text = Prefixed(o.agent, r)

\* C7: OutgoingQueue.flush makes at most N pop-and-send attempts, N being
\* the queue length at entry, also when sends fail or connected is cleared
\* while it runs.
C7_FlushBounded == attempts <= Len(flushRec.entry)

FlushCalls == SubSeq(adapterLog, flushRec.from + 1, flushRec.to)

AsItem(e) == [id |-> e.id, jid |-> e.jid, text |-> e.text]

\* C8: when a flush has returned after running connected with every
\* send_message succeeding, the adapter received during the flush exactly
\* the messages that were queued at its entry, each once, in the order in
\* which send had queued them.
C8_FlushInOrder ==
    (/\ flushRec.done
     /\ ~flushRec.disc
     /\ \A k \in 1..Len(FlushCalls) : FlushCalls[k].ok)
        => /\ [k \in 1..Len(FlushCalls) |-> AsItem(FlushCalls[k])] = flushRec.entry
           /\ flushRec.left = <<>>

\* Two messages were queued while disconnected (no send ever failed), the
\* flush after the reconnect returned and the adapter got both in order.
C8_Witness ==
    /\ flushRec.done
    /\ ~flushRec.disc
    /\ failures = 0
    /\ Len(flushRec.entry) = 2
    /\ flushRec.entry[1].id < flushRec.entry[2].id
    /\ Len(FlushCalls) = 2
    /\ AsItem(FlushCalls[1]) = flushRec.entry[1]
    /\ AsItem(FlushCalls[2]) = flushRec.entry[2]

\* C9: after a flush that ran connected, the queue is empty if and only if
\* every send_message call of the flush succeeded, and the messages left in
\* the queue are those whose send failed.
C9_EmptyIffAllOk ==
    (flushRec.done /\ ~flushRec.disc) =>
        /\ (flushRec.left = <<>>) <=> (\A k \in 1..Len(FlushCalls) : FlushCalls[k].ok)
        /\ \A k \in 1..Len(FlushCalls) :
               ~FlushCalls[k].ok =>
                   \E m \in 1..Len(flushRec.left) :
                       flushRec.left[m] = AsItem(FlushCalls[k])

\* C10: a call of OutgoingQueue.send appends the message to the queue and
\* calls nothing when not connected; when connected it calls send_message
\* once, leaves the queue as it was when that returns, and appends the
\* message when it raises; no exception reaches the caller.
C10_SendStep ==
    lastSend'.n # lastSend.n =>
        LET it == lastSend'.item
            base == IF fpc = "flush" THEN Tail(queue) ELSE queue
        IN  /\ ~connected =>
                   /\ queue' = Append(base, it)
                   /\ adapterLog' = adapterLog
            /\ connected =>
                   /\ Len(adapterLog') = Len(adapterLog) + 1
                   /\ AsItem(adapterLog'[Len(adapterLog')]) = it
                   /\ adapterLog'[Len(adapterLog')].ok => queue' = base
                   /\ ~adapterLog'[Len(adapterLog')].ok => queue' = Append(base, it)
            /\ ~lastSend'.raised

C10_SendContract == [][C10_SendStep]_vars

\* send was called while connected, send_message raised, and the message is
\* the newest entry of the queue.
C10_Witness ==
    /\ lastSend.n > 0
    /\ lastSend.connected
    /\ fpc = "idle"
    /\ adapterLog # <<>>
    /\ ~adapterLog[Len(adapterLog)].ok
    /\ AsItem(adapterLog[Len(adapterLog)]) = lastSend.item
    /\ queue # <<>>
    /\ queue[Len(queue)] = lastSend.item

\* C11: the adapter receives messages in the order in which
\* OutgoingQueue.send was called for them (ids count the calls): no message
\* has been delivered to the adapter while a message of an earlier call is
\* still waiting in the queue.
C11_FifoAcrossProcess ==
    \A k \in 1..Len(adapterLog) :
        adapterLog[k].ok =>
            \A m \in 1..Len(queue) : queue[m].id > adapterLog[k].id

(***************************************************************************)
(* Inbound classification and the dispatch orchestrator with message       *)
(* texts.  A text is a sequence of tokens; an agent name, "@", a           *)
(* punctuation mark and a blank are single tokens, "man" stands for letters *)
(* that continue a word.  Under MsgSpec on_message is one step and at most *)
(* one invocation of the flush callback runs at a time.                    *)
(***************************************************************************)
\* MessageHandler._trigger_name: WhatsAppSettings.trigger_name, which is
\* also the name of the default agent.
trigger_name == default_agent

\* RoutingConfig.all_trigger_names
all_trigger_names == agents

Texts ==
    { <<"hi">>,
      <<"@", "Ressu">>,
      <<"hey", " ", "@", "tyko", "!">>,
      <<"Ressu", ",", " ", "hi">>,
      <<"ok", ".", " ", "tyko", "?">>,
      <<"hi", " ", "Tyko">>,
      <<"Tyko", "man">> }

\* The account's JID that on_connected hands to set_self_jid.
SelfJids == {"d@s.whatsapp.net", "g@s.whatsapp.net"}

\* jid.split("@")[0]
UserPart(jid) ==
    CASE jid = GroupChat -> "g"
      [] jid = DirectChat -> "d"
      [] jid = "d@s.whatsapp.net" -> "d"
      [] jid = "g@s.whatsapp.net" -> "g"

\* source.IsGroup
IsGroup(chat) == chat = GroupChat

\* handler.py lines 275-279
is_self_chat(sj, chat) ==
    /\ sj # ""
    /\ UserPart(chat) = UserPart(sj)
    /\ ~IsGroup(chat)

\* handler.py line 281: f"@{trigger_name}".lower() in text.lower()
is_hard_mention(text) ==
    \E i \in 1..(Len(text) - 1) :
        text[i] = "@" /\ Lower(text[i + 1]) = Lower(trigger_name)

\* The hard-mention rule of the trigger classifier: "@" + name anywhere, or
\* the name as a whole word at the start of the text or after ".", "!", "?"
\* or a newline and optional whitespace, followed by the end of the text,
\* whitespace or one of ",:!?".
_is_hard_mention(text, name) ==
    \/ \E i \in 1..(Len(text) - 1) :
           text[i] = "@" /\ Lower(text[i + 1]) = Lower(name)
    \/ \E i \in 1..Len(text) :
           /\ Lower(text[i]) = Lower(name)
           /\ \E j \in 1..i :
                  /\ j = 1 \/ text[j - 1] \in {".", "!", "?", NL}
                  /\ \A k \in j..(i - 1) : IsSpace(text[k])
           /\ \/ i = Len(text)
              \/ IsSpace(text[i + 1])
              \/ text[i + 1] \in {",", ":", "!", "?"}

find_hard_mentions(text, names) == {n \in names : _is_hard_mention(text, n)}

\* on_connected: set_self_jid(Jid2String(client.me.JID))
set_self_jid(jid) ==
    /\ self_jid' = jid
    /\ UNCHANGED <<pipeVars, outVars, auxVars, wa_text, run, lastRun, outbox,
                   errors>>

accVars == <<ev, evpc, timers, orphans, expired, locked, waiters,
             pending_reflush, active, toolRows, crashes, handed, lastPass,
             lostBatch>>

\* The statements of on_message that can raise, in source order: deriving
\* the fields of the event (lines 244-257), store_message (259-266),
\* update_chat_timestamp (267) and update_global_cursor (268); "none" is an
\* event handled without an exception.
FailStages == {"none", "derive", "store", "chat_ts", "cursor"}

StageNo(stage) ==
    CASE stage = "derive" -> 1
      [] stage = "store" -> 2
      [] stage = "chat_ts" -> 3
      [] stage = "cursor" -> 4
      [] stage = "none" -> 5

\* The statement `stage` ran to its end before the exception, if any.
Completed(fail, stage) == StageNo(stage) < StageNo(fail)

\* Variant: the try block starts after the fields are derived.
Caught_PersistenceOnly(stage) == stage # "derive"

\* handler.py lines 243 and 290: the whole body is inside
\* try: ... except Exception.
Caught(stage) == TRUE

\* Variant: own messages are classified like any other.
FromMeReturns_Never(is_from_me) == FALSE

\* handler.py lines 271-272: if is_from_me: return
FromMeReturns(is_from_me) == is_from_me

\* MessageHandler.on_message, lines 242-291, for an event with a text; fail
\* is the statement that raises, "none" when none does.
on_message(chat, text, fm, fail) ==
    /\ Len(wa_messages) < MaxRows
    /\ fail # "none" => Len(errors) < MaxErrors
    /\ LET timestamp == IsoFormat(Len(wa_messages) + 1)
       IN  /\ wa_messages' = IF Completed(fail, "store")
                             THEN store_message(wa_messages, chat, timestamp, fm)
                             ELSE wa_messages
           /\ wa_text' = IF Completed(fail, "store")
                         THEN Append(wa_text, text)
                         ELSE wa_text
           /\ last_timestamp' =
                  IF Completed(fail, "chat_ts")
                  THEN update_chat_timestamp(last_timestamp, chat, timestamp)
                  ELSE last_timestamp
           /\ wa_config' = IF Completed(fail, "cursor") THEN timestamp
                           ELSE wa_config
    /\ loopq' = IF fail # "none" \/ FromMeReturns(fm) THEN loopq
                ELSE IF is_self_chat(self_jid, chat) \/ is_hard_mention(text)
                     THEN Append(loopq, [kind |-> "flush_now", chat |-> chat])
                     ELSE Append(loopq, [kind |-> "add", chat |-> chat])
    /\ errors' = IF fail = "none" THEN errors
                 ELSE Append(errors, [stage |-> fail, caught |-> Caught(fail)])
    /\ UNCHANGED <<last_agent_timestamp, accVars, outVars, auxVars, self_jid, run,
                   lastRun, outbox>>

(***************************************************************************)
(* WhatsAppConnection._handle_agent_trigger and _dispatch_for_agent        *)
(* (connection.py lines 254-352) with the batch text.  The trace of an     *)
(* invocation lists, in order, each dispatch_to_agent call with the        *)
(* directive flag of its prompt and what came of it.                       *)
(***************************************************************************)
RECURSIVE JoinSpace(_)
JoinSpace(parts) ==
    IF parts = <<>> THEN <<>>
    ELSE IF Len(parts) = 1 THEN parts[1]
    ELSE parts[1] \o <<" ">> \o JoinSpace(Tail(parts))

\* Variant: every agent of a hard flush gets the directive.
agent_hard_mention_All(hard_mention, mentioned_agents, name) == hard_mention

\* connection.py lines 272-274
agent_hard_mention(hard_mention, mentioned_agents, name) ==
    hard_mention /\ (mentioned_agents = {} \/ name \in mentioned_agents)

\* What the awaited dispatch does: it returns a full_text or raises.
Outcomes ==
    {[raises |-> FALSE, full_text |-> t] : t \in AgentOutputs}
        \cup {[raises |-> TRUE, full_text |-> <<>>]}

Event(kind, agent, directive, text) ==
    [kind |-> kind, agent |-> agent, directive |-> directive, text |-> text]

\* Lines 303-331 for the agent at position k of the route: the prompt is
\* built, with the directive when hard_mention is set, and dispatch_to_agent
\* is awaited.
DispatchCall(r, k) ==
    LET name == agents_for_chat(r.chat)[k]
    IN  Event("dispatch", name,
              agent_hard_mention(r.hard, r.mentioned, name), <<>>)

\* Variant: the prefix is added whenever the reply is not empty.
ReplyFor_AlwaysPrefixed(name, is_multi, extracted) == Prefixed(name, extracted)

\* Lines 346-347
ReplyFor(name, is_multi, extracted) ==
    IF is_multi THEN Prefixed(name, extracted) ELSE extracted

Dispatched(trace) == Len(SelectSeq(trace, LAMBDA e : e.kind = "dispatch"))

\* Variant: an empty batch is dispatched like any other.
EmptyBatchReturns_Never(messages) == FALSE

\* Lines 264-265: if not messages: return
EmptyBatchReturns(messages) == messages = <<>>

\* Lines 260-269 and the first pass of the loop up to its await.
_handle_agent_trigger(chat_jid, hard_mention) ==
    /\ run.chat = ""
    /\ \E k \in 1..Len(loopq) :
           /\ loopq[k].chat = chat_jid
           /\ hard_mention => loopq[k].kind = "flush_now"
    /\ LET messages == get_new_messages_for_chat(wa_messages,
                                                 last_agent_timestamp, chat_jid)
           all_text == JoinSpace([k \in 1..Len(messages) |-> wa_text[messages[k]]])
           r == [chat |-> chat_jid, hard |-> hard_mention, batch |-> messages,
                 mentioned |-> find_hard_mentions(all_text, all_trigger_names),
                 trace |-> <<>>, cursor |-> EmptyStr, returned |-> FALSE]
       IN  IF EmptyBatchReturns(messages)
           THEN /\ lastRun' = [NoRun EXCEPT !.chat = chat_jid,
                                            !.hard = hard_mention,
                                            !.returned = TRUE]
                /\ UNCHANGED run
           ELSE /\ run' = [r EXCEPT !.trace = <<DispatchCall(r, 1)>>]
                /\ UNCHANGED lastRun
    /\ UNCHANGED <<pipeVars, outVars, auxVars, wa_text, self_jid, outbox,
                   errors>>

\* Variant: an exception of one agent's dispatch ends the loop.
AfterAgent_Abort(r, raised) ==
    IF raised THEN Len(agents_for_chat(r.chat)) ELSE Dispatched(r.trace)

\* Lines 275-286: the exception is caught inside the loop; the number of
\* agents the loop is done with after this one.
AfterAgent(r, raised) == Dispatched(r.trace)

\* The awaited dispatch_to_agent returns or raises: lines 341-352 and
\* 283-286, then the next pass of the loop up to its await, or lines 288-291.
DispatchReturn(o) ==
    /\ run.chat # ""
    /\ LET ags == agents_for_chat(run.chat)
           is_multi == Len(ags) > 1
           name == ags[Dispatched(run.trace)]
           extracted == _extract_reply(o.full_text)
           sends == ~o.raises /\ extracted # None
           text == ReplyFor(name, is_multi, extracted)
           ev1 == IF o.raises THEN Event("raised", name, FALSE, <<>>)
                  ELSE IF sends THEN Event("sent", name, FALSE, text)
                  ELSE Event("silent", name, FALSE, <<>>)
           r1 == [run EXCEPT !.trace = Append(@, ev1)]
           n == AfterAgent(r1, o.raises)
           last_msg_ts == wa_messages[run.batch[Len(run.batch)]].ts
       IN  /\ outbox' = IF sends
                        THEN Append(outbox, [jid |-> run.chat, text |-> text])
                        ELSE outbox
           /\ IF n < Len(ags)
              THEN /\ run' = [r1 EXCEPT !.trace = Append(@, DispatchCall(r1, n + 1))]
                   /\ UNCHANGED <<lastRun, last_agent_timestamp>>
              ELSE /\ run' = NoRun
                   /\ last_agent_timestamp' =
                          update_agent_cursor(last_agent_timestamp, run.chat,
                                              last_msg_ts)
                   /\ lastRun' = [r1 EXCEPT !.cursor = last_msg_ts,
                                            !.returned = TRUE]
    /\ UNCHANGED <<wa_messages, last_timestamp, wa_config, loopq, accVars,
                   outVars, auxVars, wa_text, self_jid, errors>>

MsgNext ==
    \/ \E jid \in SelfJids : set_self_jid(jid)
    \/ \E chat \in Chats, text \in Texts, fm \in BOOLEAN :
           on_message(chat, text, fm, "none")
    \/ \E chat \in Chats, hard \in BOOLEAN : _handle_agent_trigger(chat, hard)
    \/ \E o \in Outcomes : DispatchReturn(o)

MsgSpec == Init /\ [][MsgNext]_vars

(***************************************************************************)
(* The adapter thread alone: the events it hands to on_message, with the   *)
(* exceptions that the statements of on_message can raise.  The calls it   *)
(* posts stay in the queue of the event loop.                              *)
(***************************************************************************)
HandlerNext ==
    \/ \E jid \in SelfJids : set_self_jid(jid)
    \/ \E chat \in Chats, text \in Texts, fm \in BOOLEAN, fail \in FailStages :
           on_message(chat, text, fm, fail)

HandlerSpec == Init /\ [][HandlerNext]_vars

(***************************************************************************)
(* RoutingConfig and load_routing_config (routing.py) for the routing      *)
(* files of a bounded family.  An agent name and a chat identifier are     *)
(* token sequences, so that a "-" inside a name is distinct from the "-"   *)
(* that conversation_name puts behind it only by its position.             *)
(***************************************************************************)
NamePool == { <<"Ressu">>, <<"ressu">>, <<"Tyko">>, <<"Ressu", "-", "Tyko">> }

ChatIds == { <<GroupChat>>, <<DirectChat>> }

RECURSIVE SeqsUpTo(_, _)
SeqsUpTo(S, n) ==
    IF n = 0 THEN { <<>> }
    ELSE LET shorter == SeqsUpTo(S, n - 1)
         IN  shorter \cup {Append(q, x) : q \in shorter, x \in S}

InSeq(x, q) == \E i \in 1..Len(q) : q[i] = x

Distinct(q) == \A i, j \in 1..Len(q) : q[i] = q[j] => i = j

\* The keys of a JSON object "agents", in the order of the file.
AgentLists == {q \in SeqsUpTo(NamePool, MaxNames) : Distinct(q)}

\* The JSON object "routes": chat JIDs with a list of agent names each.
RouteTables ==
    UNION {[J -> SeqsUpTo(NamePool, MaxNames)] : J \in SUBSET Chats}

\* A missing key "default_agent".
Absent == <<>>

\* The routing files: none at the path, or a JSON description.
JsonFiles ==
    {NoJson} \cup
    {[exists |-> TRUE, agents |-> a, default_agent |-> d, routes |-> r] :
        a \in AgentLists, d \in NamePool \cup {Absent}, r \in RouteTables}

\* PYKOCLAW_WA_TRIGGER_NAME
default_trigger == <<"Ressu">>

LowerName(name) == [i \in 1..Len(name) |-> Lower(name[i])]

\* Variant: the names of a route are taken as they are.
ValidNames_All(names, known) == names

\* routing.py lines 120-127: the names of a route that are keys of agents.
ValidNames(names, known) == SelectSeq(names, LAMBDA n : InSeq(n, known))

\* load_routing_config, routing.py lines 86-141.
load_routing_config(data, trigger) ==
    IF ~data.exists
    THEN [default_agent |-> trigger, agents |-> <<trigger>>, routes |-> <<>>]
    ELSE LET default_name == IF data.default_agent = Absent THEN trigger
                             ELSE data.default_agent
             known == IF InSeq(default_name, data.agents) THEN data.agents
                      ELSE Append(data.agents, default_name)
             kept == {jid \in DOMAIN data.routes :
                         ValidNames(data.routes[jid], known) # <<>>}
         IN  [default_agent |-> default_name,
              agents |-> known,
              routes |-> [jid \in kept |-> ValidNames(data.routes[jid], known)]]

\* self.agents[name] of a name that is no key of agents.
KeyError == << <<"KeyError">> >>

\* RoutingConfig.agents_for_chat, routing.py lines 49-56.
RoutingConfig_agents_for_chat(c, chat_jid) ==
    LET names == IF chat_jid \in DOMAIN c.routes THEN c.routes[chat_jid]
                 ELSE <<c.default_agent>>
    IN  IF \A i \in 1..Len(names) : InSeq(names[i], c.agents) THEN names
        ELSE KeyError

\* RoutingConfig.is_multi_agent, routing.py lines 58-60.
RoutingConfig_is_multi_agent(c, chat_jid) ==
    chat_jid \in DOMAIN c.routes /\ Len(c.routes[chat_jid]) > 1

\* RoutingConfig.conversation_name, routing.py lines 67-72.
RoutingConfig_conversation_name(agent, chat_jid) ==
    <<"wa-">> \o LowerName(agent) \o <<"-">> \o chat_jid

\* RoutingConfig.parse_conversation, routing.py lines 74-83: the first agent
\* of the dict whose prefix the conversation starts with.
RoutingConfig_parse_conversation(c, conversation) ==
    LET prefix(k) == <<"wa-">> \o LowerName(c.agents[k]) \o <<"-">>
        hits == {k \in 1..Len(c.agents) : StartsWith(conversation, prefix(k))}
    IN  IF hits = {} THEN [agent |-> <<>>, chat |-> <<>>]
        ELSE [agent |-> c.agents[Min(hits)],
              chat |-> SubSeq(conversation, Len(prefix(Min(hits))) + 1,
                              Len(conversation))]

\* WhatsAppConnection.__init__: the routing file is read once.
LoadRoutingConfig(data) ==
    /\ cfg = NoConfig
    /\ json' = data
    /\ cfg' = load_routing_config(data, default_trigger)
    /\ UNCHANGED <<pipeVars, outVars, msgVars, liveVars, tickVars, pollerVars, threadVars,
                   probe>>

\* A conversation name is made for an agent of the config and parsed back.
ConversationRoundTrip(a, x) ==
    /\ cfg # NoConfig
    /\ InSeq(a, cfg.agents)
    /\ LET name == RoutingConfig_conversation_name(a, x)
       IN  probe' = [NoProbe EXCEPT
                        !.op = "parse_conversation", !.agent = a, !.chat = x,
                        !.name = name,
                        !.parsed = RoutingConfig_parse_conversation(cfg, name)]
    /\ UNCHANGED <<pipeVars, outVars, msgVars, liveVars, tickVars, pollerVars, threadVars,
                   json, cfg>>

\* The agents of a chat are looked up.
AgentsForChat(chat_jid) ==
    /\ cfg # NoConfig
    /\ probe' = [NoProbe EXCEPT
                    !.op = "agents_for_chat", !.chat = <<chat_jid>>,
                    !.listed = RoutingConfig_agents_for_chat(cfg, chat_jid),
                    !.multi = RoutingConfig_is_multi_agent(cfg, chat_jid)]
    /\ UNCHANGED <<pipeVars, outVars, msgVars, liveVars, tickVars, pollerVars, threadVars,
                   json, cfg>>

RouteNext ==
    \/ cfg = NoConfig /\ \E data \in JsonFiles : LoadRoutingConfig(data)
    \/ \E a \in NamePool, x \in ChatIds : ConversationRoundTrip(a, x)
    \/ \E chat \in Chats : AgentsForChat(chat)

RouteSpec == Init /\ [][RouteNext]_vars

(***************************************************************************)
(* One tick of the delivery poll loop over the stores (connection.py lines *)
(* 357-390).  The scan of a store reads its pending deliveries and handles *)
(* each; it raises when the store cannot be read.                          *)
(***************************************************************************)
\* The scheduler writes a pending delivery into a store.
StoreDelivery(s) ==
    /\ pendingIn[s] < MaxPending
    /\ pendingIn' = [pendingIn EXCEPT ![s] = @ + 1]
    /\ UNCHANGED <<unreadable, tickpos, scanned, tickError, tickDone>>

\* A store becomes unreadable (its database is locked or closed), or
\* readable again.
StoreFault(s) ==
    /\ unreadable' = IF s \in unreadable THEN unreadable \ {s}
                     ELSE unreadable \cup {s}
    /\ UNCHANGED <<pendingIn, tickpos, scanned, tickError, tickDone>>

\* _delivery_poll_loop, lines 361-363: the sleep is over and
\* _process_pending_deliveries is called.
TickStart ==
    /\ tickpos = 0
    /\ tickpos' = 1
    /\ scanned' = {}
    /\ tickError' = FALSE
    /\ tickDone' = FALSE
    /\ UNCHANGED <<pendingIn, unreadable>>

\* _process_pending_deliveries, lines 383-385, has no try of its own: an
\* exception of _process_deliveries_from_db leaves the for loop and is
\* caught in _delivery_poll_loop, lines 364-365, which ends the tick.
AfterScanError(k) == 0

\* The for loop goes on to the next store, or ends after the last.
AfterScan(k) == IF k = Len(Stores) THEN 0 ELSE k + 1

\* _process_deliveries_from_db(db) for the next store of the tick.
ScanStore ==
    /\ tickpos > 0
    /\ LET s == Stores[tickpos]
       IN  /\ scanned' = scanned \cup {s}
           /\ IF s \in unreadable
              THEN /\ tickpos' = AfterScanError(tickpos)
                   /\ tickError' = TRUE
                   /\ UNCHANGED pendingIn
              ELSE /\ tickpos' = AfterScan(tickpos)
                   /\ pendingIn' = [pendingIn EXCEPT ![s] = 0]
                   /\ UNCHANGED tickError
    /\ tickDone' = (tickpos' = 0)
    /\ UNCHANGED unreadable

TickNext ==
    \/ \E s \in StoreSet : StoreDelivery(s) /\ UNCHANGED <<pipeVars, outVars, msgVars, liveVars, routeVars, pollerVars, threadVars>>
    \/ \E s \in StoreSet : StoreFault(s) /\ UNCHANGED <<pipeVars, outVars, msgVars, liveVars, routeVars, pollerVars, threadVars>>
    \/ TickStart /\ UNCHANGED <<pipeVars, outVars, msgVars, liveVars, routeVars, pollerVars, threadVars>>
    \/ ScanStore /\ UNCHANGED <<pipeVars, outVars, msgVars, liveVars, routeVars, pollerVars, threadVars>>

TickSpec == Init /\ [][TickNext]_vars

(***************************************************************************)
(* The life of the delivery-poll task (connection.py lines 174-198 and     *)
(* 354-367).  on_connected and on_disconnected run on the adapter thread   *)
(* and read and write _delivery_task there; _start_delivery_polling and    *)
(* the ticks of the loop run on the event loop.                            *)
(***************************************************************************)
\* on_connected, lines 187-190: the start of the poller is posted to the
\* loop when _delivery_task is None.
ConnectedEv ==
    /\ link' = "up"
    /\ IF _delivery_task = 0
       THEN /\ created + startq < MaxTasks
            /\ startq' = startq + 1
       ELSE UNCHANGED startq
    /\ UNCHANGED <<_delivery_task, alive, created, lastTick>>

\* on_disconnected, lines 192-198: the task that _delivery_task refers to
\* is cancelled, and _delivery_task is set to None.
DisconnectedEv ==
    /\ link' = "down"
    /\ alive' = alive \ {_delivery_task}
    /\ _delivery_task' = 0
    /\ UNCHANGED <<created, startq, lastTick>>

\* _start_delivery_polling, lines 354-355, run by the loop: a task is
\* created and stored, whatever _delivery_task holds.
_start_delivery_polling ==
    /\ startq > 0
    /\ startq' = startq - 1
    /\ created' = created + 1
    /\ alive' = alive \cup {created + 1}
    /\ _delivery_task' = created + 1
    /\ UNCHANGED <<link, lastTick>>

\* _delivery_poll_loop, lines 360-365: the sleep of a task that was not
\* cancelled returns and a tick runs.
_delivery_poll_loop(t) ==
    /\ t \in alive
    /\ lastTick' = [task |-> t, link |-> link]
    /\ UNCHANGED <<link, _delivery_task, alive, created, startq>>

PollerNext ==
    \/ ConnectedEv /\ UNCHANGED <<pipeVars, outVars, msgVars, liveVars, routeVars, tickVars, threadVars>>
    \/ DisconnectedEv /\ UNCHANGED <<pipeVars, outVars, msgVars, liveVars, routeVars, tickVars, threadVars>>
    \/ _start_delivery_polling /\ UNCHANGED <<pipeVars, outVars, msgVars, liveVars, routeVars, tickVars, threadVars>>
    \/ \E t \in 1..MaxTasks :
           _delivery_poll_loop(t) /\ UNCHANGED <<pipeVars, outVars, msgVars, liveVars, routeVars, tickVars, threadVars>>

PollerSpec == Init /\ [][PollerNext]_vars

(***************************************************************************)
(* The two threads that use the one sqlite3 connection self._db.           *)
(* on_message runs on the adapter's callback thread and calls              *)
(* store_message, update_chat_timestamp and update_global_cursor there     *)
(* (handler.py lines 259-268), each an execute followed by a commit;       *)
(* _handle_agent_trigger runs on the event loop thread (connection.py      *)
(* lines 148-149) and calls get_new_messages_for_chat, two SELECTs, and    *)
(* after the dispatches update_agent_cursor, an execute and a commit.      *)
(* Neither file takes a lock around them.  A statement is one step.        *)
(***************************************************************************)
\* The store operations of on_message, in order; operation i is entered at
\* adapterPc = 2 * i - 1 (executed, not committed) and left at 2 * i.
AdapterOps == <<"store_message", "update_chat_timestamp", "update_global_cursor">>

AdapterInStore == adapterPc % 2 = 1

LoopInStore == loopPc \in {"get_new_messages_for_chat", "update_agent_cursor"}

\* db.execute(INSERT ...) of the next store operation of on_message.
AdapterExecute ==
    /\ adapterPc % 2 = 0
    /\ adapterPc > 0 \/ eventsDone < MaxOps
    /\ adapterPc' = adapterPc + 1
    /\ txn' = txn \cup {"adapter"}
    /\ UNCHANGED <<loopPc, eventsDone, calls>>

\* db.commit() of that operation: it commits whatever the connection holds.
\* After the last one the handler posts add or flush_now.
AdapterCommit ==
    /\ adapterPc % 2 = 1
    /\ txn' = {}
    /\ IF adapterPc + 1 = 2 * Len(AdapterOps)
       THEN /\ adapterPc' = 0
            /\ eventsDone' = eventsDone + 1
            /\ calls' = calls + 1
       ELSE /\ adapterPc' = adapterPc + 1
            /\ UNCHANGED <<eventsDone, calls>>
    /\ UNCHANGED loopPc

\* _handle_agent_trigger, line 263: the first SELECT of
\* get_new_messages_for_chat (the chat's agent cursor).
LoopSelectCursor ==
    /\ loopPc = "idle"
    /\ calls > 0
    /\ calls' = calls - 1
    /\ loopPc' = "get_new_messages_for_chat"
    /\ UNCHANGED <<adapterPc, txn, eventsDone>>

\* Its second SELECT (the rows); then the dispatches are awaited.
LoopSelectRows ==
    /\ loopPc = "get_new_messages_for_chat"
    /\ loopPc' = "dispatch"
    /\ UNCHANGED <<adapterPc, txn, eventsDone, calls>>

\* Line 291: db.execute of update_agent_cursor after the last dispatch.
LoopExecute ==
    /\ loopPc = "dispatch"
    /\ loopPc' = "update_agent_cursor"
    /\ txn' = txn \cup {"loop"}
    /\ UNCHANGED <<adapterPc, eventsDone, calls>>

\* db.commit() of update_agent_cursor.
LoopCommit ==
    /\ loopPc = "update_agent_cursor"
    /\ loopPc' = "idle"
    /\ txn' = {}
    /\ UNCHANGED <<adapterPc, eventsDone, calls>>

ThreadNext ==
    \/ AdapterExecute /\ UNCHANGED <<pipeVars, outVars, msgVars, liveVars, routeVars, tickVars, pollerVars>>
    \/ AdapterCommit /\ UNCHANGED <<pipeVars, outVars, msgVars, liveVars, routeVars, tickVars, pollerVars>>
    \/ LoopSelectCursor /\ UNCHANGED <<pipeVars, outVars, msgVars, liveVars, routeVars, tickVars, pollerVars>>
    \/ LoopSelectRows /\ UNCHANGED <<pipeVars, outVars, msgVars, liveVars, routeVars, tickVars, pollerVars>>
    \/ LoopExecute /\ UNCHANGED <<pipeVars, outVars, msgVars, liveVars, routeVars, tickVars, pollerVars>>
    \/ LoopCommit /\ UNCHANGED <<pipeVars, outVars, msgVars, liveVars, routeVars, tickVars, pollerVars>>

ThreadSpec == Init /\ [][ThreadNext]_vars

(***************************************************************************)
(* Properties of the inbound classification.                               *)
(***************************************************************************)
\* on_message persisted a row in this step without an exception, and the row
\* is not from the account itself.
InboundStep ==
    /\ Len(wa_messages') = Len(wa_messages) + 1
    /\ ~wa_messages'[Len(wa_messages')].is_from_me
    /\ errors' = errors

NewChat == wa_messages'[Len(wa_messages')].chat
NewText == wa_text'[Len(wa_text')]

\* C12: for each persisted inbound message that is not from the account
\* itself the handler makes exactly one call: flush_now(chat) when the chat
\* is the self-chat or the text is a hard mention, add(chat) otherwise.
C12_Step ==
    InboundStep =>
        loopq' = Append(loopq,
                    [kind |-> IF \/ is_self_chat(self_jid, NewChat)
                                 \/ \E n \in all_trigger_names :
                                        _is_hard_mention(NewText, n)
                              THEN "flush_now" ELSE "add",
                     chat |-> NewChat])

C12_OneCall == [][C12_Step]_vars

\* C13: the hard-mention decision for a text and the trigger name N is true
\* exactly when "@" + N occurs in the text or N stands as a whole word at the
\* start of the text or of a sentence, followed by the end of the text,
\* whitespace or one of ",:!?"; outside the self-chat the decision alone
\* selects flush_now.
C13_Step ==
    (InboundStep /\ ~is_self_chat(self_jid, NewChat)) =>
        /\ Len(loopq') = Len(loopq) + 1
        /\ (loopq'[Len(loopq')].kind = "flush_now")
               <=> _is_hard_mention(NewText, trigger_name)

C13_HardMentionDecision == [][C13_Step]_vars

\* C14: an inbound message that hard-mentions any agent name of the routing
\* table, not only the default trigger name, causes flush_now for its chat.
C14_Step ==
    (InboundStep /\ find_hard_mentions(NewText, all_trigger_names) # {}) =>
        /\ Len(loopq') = Len(loopq) + 1
        /\ loopq'[Len(loopq')] = [kind |-> "flush_now", chat |-> NewChat]

C14_AnyAgentName == [][C14_Step]_vars

(***************************************************************************)
(* Properties of the batch accumulator.                                    *)
(***************************************************************************)
FlushNowStep(c) ==
    /\ loopq # <<>>
    /\ Head(loopq) = [kind |-> "flush_now", chat |-> c]
    /\ loopq' = Tail(loopq)
    /\ crashes' = crashes

AddStep(c) ==
    /\ loopq # <<>>
    /\ Head(loopq) = [kind |-> "add", chat |-> c]
    /\ loopq' = Tail(loopq)
    /\ crashes' = crashes

TimerExpiredStep(c) ==
    /\ expired[c] > 0
    /\ expired'[c] = expired[c] - 1
    /\ crashes' = crashes

WaiterResumeStep(c) ==
    /\ Woken(c)
    /\ waiters'[c] = Tail(waiters[c])
    /\ crashes' = crashes

NewBatch(c) == get_new_messages_for_chat(wa_messages, last_agent_timestamp, c)

\* The callback is invoked once in this step, with the given hard flag; an
\* invocation that finds no new message returns at once.
CallbackRuns(c, hard) ==
    IF NewBatch(c) # <<>>
    THEN active'[c] = Append(active[c], [hard |-> hard, batch |-> NewBatch(c),
                                         done |-> <<>>])
    ELSE active' = active

\* C15: flush_now(chat) while the chat has a pending timer and no flush in
\* progress cancels that timer and runs the callback once with hard=true;
\* the cancelled timer is gone from the table and will never fire, so the
\* add that scheduled it and the flush_now give one callback invocation.
C15_Step ==
    \A c \in Chats :
        (FlushNowStep(c) /\ timers[c] = "live" /\ ~locked[c] /\ waiters[c] = <<>>)
            => /\ timers'[c] = "none"
               /\ orphans' = orphans
               /\ expired' = expired
               /\ CallbackRuns(c, TRUE)

C15_FlushNowPreempts == [][C15_Step]_vars

InboundRows(c) ==
    {i \in 1..Len(wa_messages) : wa_messages[i].chat = c /\ ~wa_messages[i].is_from_me}

\* Two messages of one chat, an add and then a flush_now: one invocation
\* with hard=true is running on both, and no timer, timer task or waiter is
\* left for the chat.
C15_Witness ==
    \E c \in Chats :
        /\ Cardinality(InboundRows(c)) = 2
        /\ Len(active[c]) = 1
        /\ active[c][1].hard
        /\ BatchIds(active[c][1].batch) = InboundRows(c)
        /\ timers[c] = "none" /\ orphans[c] = 0 /\ expired[c] = 0
        /\ waiters[c] = <<>> /\ pending_reflush = {}
        /\ loopq = <<>> /\ evpc = "idle"
        /\ lastPass[c].n = 0 /\ crashes = 0

\* C16 as stated: a flush_now that arrives while a flush of the chat is
\* running sets the pending-reflush flag and does not queue a flush of its
\* own.
C16_Collapsed ==
    [][\A c \in Chats :
           (FlushNowStep(c) /\ locked[c])
               => /\ c \in pending_reflush'
                  /\ waiters'[c] = waiters[c]]_vars

\* C16 amended: a flush_now that arrives while a flush of the chat is
\* running leaves the pending-reflush flag alone and waits for the chat's
\* lock; when the running flush has finished and the waiter is resumed, the
\* callback runs with hard=true.
C16_Step ==
    \A c \in Chats :
        /\ (FlushNowStep(c) /\ locked[c])
               => /\ waiters'[c] = Append(waiters[c], TRUE)
                  /\ pending_reflush' = pending_reflush
                  /\ active' = active
        /\ (WaiterResumeStep(c) /\ Head(waiters[c]))
               => CallbackRuns(c, TRUE)

C16_HardFlushWaits == [][C16_Step]_vars

\* A flush of the chat is running, a flush_now arrived meanwhile and waits
\* for the lock with hard=true, and the pending-reflush flag is not set.
C16_Witness ==
    \E c \in Chats :
        /\ locked[c]
        /\ Len(active[c]) = 1
        /\ waiters[c] = <<TRUE>>
        /\ c \notin pending_reflush
        /\ loopq = <<>>
        /\ crashes = 0

\* C17: an add for a chat that has a timer schedules nothing and leaves the
\* timer as it is; an add for a chat without one schedules exactly one; the
\* timers of other chats are untouched and add never runs the callback; the
\* expiry of the timer runs the callback with hard=false.
C17_Step ==
    \A c \in Chats :
        /\ AddStep(c)
               => /\ (~locked[c] /\ timers[c] # "none")
                         => (timers' = timers /\ orphans' = orphans)
                  /\ (~locked[c] /\ timers[c] = "none")
                         => (timers' = [timers EXCEPT ![c] = "live"]
                                /\ orphans' = orphans)
                  /\ \A d \in Chats \ {c} :
                         timers'[d] = timers[d] /\ orphans'[d] = orphans[d]
                  /\ expired' = expired
                  /\ active' = active
                  /\ waiters' = waiters
        /\ (TimerExpiredStep(c) /\ ~locked[c] /\ waiters[c] = <<>>)
               => CallbackRuns(c, FALSE)

C17_Debounce == [][C17_Step]_vars

\* Two adds of one chat were absorbed by one timer, and its expiry started
\* one invocation with hard=false on both messages; nothing else is pending.
C17_Witness ==
    \E c \in Chats :
        /\ Cardinality(InboundRows(c)) = 2
        /\ Len(active[c]) = 1
        /\ ~active[c][1].hard
        /\ BatchIds(active[c][1].batch) = InboundRows(c)
        /\ timers[c] = "none" /\ orphans[c] = 0 /\ expired[c] = 0
        /\ waiters[c] = <<>> /\ pending_reflush = {}
        /\ loopq = <<>> /\ evpc = "idle"
        /\ lastPass[c].n = 0 /\ crashes = 0

(***************************************************************************)
(* Properties of the dispatch orchestrator.                                *)
(***************************************************************************)
\* The invocations whose trace the state holds: the running one and the
\* last one that returned.
Runs == {run, lastRun}

BatchText(r) == JoinSpace([k \in 1..Len(r.batch) |-> wa_text[r.batch[k]]])

Calls(r) == SelectSeq(r.trace, LAMBDA e : e.kind = "dispatch")

Sends(r) == SelectSeq(r.trace, LAMBDA e : e.kind = "sent")

\* C19: the agents of a chat are dispatched one after another in route
\* order; what came of one dispatch, the send of its reply included, precedes
\* the next dispatch; in a chat with several agents every reply is sent
\* prefixed with "[<agent name>]: " and the sends reach the outbound queue
\* in route order; in a chat with one agent the reply is sent unprefixed.
C19_RouteOrder ==
    \A r \in Runs :
        LET ags == agents_for_chat(r.chat)
        IN  /\ Len(Calls(r)) <= Len(ags)
            /\ \A k \in 1..Len(Calls(r)) : Calls(r)[k].agent = ags[k]
            /\ \A i \in 1..Len(r.trace) :
                   /\ (r.trace[i].kind = "dispatch") <=> (i % 2 = 1)
                   /\ i % 2 = 0 => r.trace[i].agent = r.trace[i - 1].agent
                   /\ r.trace[i].kind = "sent" =>
                          LET t == r.trace[i].text
                          IN  IF Len(ags) > 1
                              THEN /\ Len(t) > 3
                                   /\ SubSeq(t, 1, 3) = <<"[", r.trace[i].agent, "]: ">>
                                   /\ t[4] # "["
                              ELSE t # <<>> /\ t[1] # "["
            /\ (r = run \/ run.chat = "") =>
                   /\ Len(Sends(r)) <= Len(outbox)
                   /\ \A k \in 1..Len(Sends(r)) :
                          outbox[Len(outbox) - Len(Sends(r)) + k] =
                              [jid |-> r.chat, text |-> Sends(r)[k].text]

\* Both agents of the group replied: Ressu's prefixed reply is in the
\* outbound queue before Tyko's, and Tyko was dispatched after it was sent.
C19_Witness ==
    /\ lastRun.returned
    /\ lastRun.chat = GroupChat
    /\ run.chat = ""
    /\ Len(lastRun.trace) = 4
    /\ lastRun.trace[2].kind = "sent" /\ lastRun.trace[2].agent = "Ressu"
    /\ lastRun.trace[3].kind = "dispatch" /\ lastRun.trace[3].agent = "Tyko"
    /\ lastRun.trace[4].kind = "sent" /\ lastRun.trace[4].agent = "Tyko"
    /\ Len(outbox) >= 2
    /\ outbox[Len(outbox) - 1].text = lastRun.trace[2].text
    /\ outbox[Len(outbox)].text = lastRun.trace[4].text

\* C20: when the dispatch of one agent raises, the next agent of the route
\* is dispatched all the same; the invocation returns normally after every
\* agent of the route was dispatched, and the chat's agent cursor is then the
\* timestamp of the last message of the batch.
C20_ErrorIsolated ==
    /\ \A r \in Runs :
           LET ags == agents_for_chat(r.chat)
           IN  \A i \in 1..Len(r.trace) :
                   r.trace[i].kind = "raised" =>
                       IF r.trace[i].agent = ags[Len(ags)]
                       THEN r.returned
                       ELSE /\ i < Len(r.trace)
                            /\ r.trace[i + 1].kind = "dispatch"
                            /\ \E k \in 1..(Len(ags) - 1) :
                                   /\ ags[k] = r.trace[i].agent
                                   /\ ags[k + 1] = r.trace[i + 1].agent
    /\ (lastRun.returned /\ lastRun.batch # <<>>) =>
           /\ Len(Calls(lastRun)) = Len(agents_for_chat(lastRun.chat))
           /\ lastRun.cursor = wa_messages[lastRun.batch[Len(lastRun.batch)]].ts
           /\ last_agent_timestamp[lastRun.chat] = lastRun.cursor

\* The dispatch of Ressu raised, Tyko was dispatched after it, the
\* invocation returned and the cursor of the group was advanced.
C20_Witness ==
    /\ lastRun.returned
    /\ lastRun.chat = GroupChat
    /\ Len(lastRun.trace) = 4
    /\ lastRun.trace[2].kind = "raised" /\ lastRun.trace[2].agent = "Ressu"
    /\ lastRun.trace[3].kind = "dispatch" /\ lastRun.trace[3].agent = "Tyko"
    /\ last_agent_timestamp[GroupChat] = lastRun.cursor
    /\ lastRun.cursor # EmptyStr

(***************************************************************************)
(* Properties of on_message for own messages and for exceptions.           *)
(***************************************************************************)
\* on_message handled an event of the account itself in this step, without
\* an exception.
FromMeStep ==
    /\ Len(wa_messages') = Len(wa_messages) + 1
    /\ wa_messages'[Len(wa_messages')].is_from_me
    /\ errors' = errors

\* C21: a message whose is_from_me flag is true is persisted (its row, the
\* last_timestamp of its chat and the global cursor are written) but never
\* causes add or flush_now, whatever its text or chat.
C21_Step ==
    FromMeStep =>
        LET row == wa_messages'[Len(wa_messages')]
        IN  /\ last_timestamp'[row.chat] = row.ts
            /\ wa_config' = row.ts
            /\ Len(wa_text') = Len(wa_messages')
            /\ loopq' = loopq

C21_FromMeNotClassified == [][C21_Step]_vars

\* An own message "@Ressu" in the self-chat was persisted and no call was
\* made for it.
C21_Witness ==
    /\ Len(wa_messages) = 1
    /\ wa_messages[1].is_from_me
    /\ wa_messages[1].chat = DirectChat
    /\ self_jid = "d@s.whatsapp.net"
    /\ wa_text = << <<"@", "Ressu">> >>
    /\ last_timestamp[DirectChat] = wa_messages[1].ts
    /\ wa_config = wa_messages[1].ts
    /\ loopq = <<>>
    /\ errors = <<>>

\* C29: an exception raised while the fields of an event are derived or
\* while it is persisted is caught inside on_message: it does not reach the
\* adapter and neither add nor flush_now is called for the event; an event
\* that follows it is handled as usual.
C29_Step ==
    /\ errors' # errors =>
           /\ errors'[Len(errors')].caught
           /\ loopq' = loopq
    /\ (errors # <<>> /\ InboundStep) =>
           /\ Len(loopq') = Len(loopq) + 1
           /\ loopq'[Len(loopq')].chat = NewChat
           /\ last_timestamp'[NewChat] = wa_messages'[Len(wa_messages')].ts
           /\ wa_config' = wa_messages'[Len(wa_messages')].ts

C29_ExceptionsCaught == [][C29_Step]_vars

\* update_chat_timestamp raised for a message of the group, which left its
\* row without a call; the next event, of the direct chat, was handled.
C29_Witness ==
    /\ errors = <<[stage |-> "chat_ts", caught |-> TRUE]>>
    /\ Len(wa_messages) = 2
    /\ wa_messages[1].chat = GroupChat
    /\ last_timestamp[GroupChat] = EmptyStr
    /\ wa_messages[2].chat = DirectChat
    /\ ~wa_messages[2].is_from_me
    /\ last_timestamp[DirectChat] = wa_messages[2].ts
    /\ loopq = <<[kind |-> "add", chat |-> DirectChat]>>

(***************************************************************************)
(* Properties of the batches.                                              *)
(***************************************************************************)
\* C22: no batch handed to the dispatcher contains a row whose is_from_me
\* flag is set, be it an own message seen by on_message or a row written by
\* the send_message tool.
C22_NoOwnRowsInBatch ==
    \A c \in Chats :
        \A k \in 1..Len(active[c]) :
            \A j \in 1..Len(active[c][k].batch) :
                ~wa_messages[active[c][k].batch[j]].is_from_me

(***************************************************************************)
(* Properties of the routing configuration.                                *)
(***************************************************************************)
\* C23: for every routing config, every agent a of it and every chat
\* identifier x, parse_conversation(conversation_name(a, x)) is (a, x).
C23_RoundTrip ==
    probe.op = "parse_conversation" =>
        probe.parsed = [agent |-> probe.agent, chat |-> probe.chat]

\* C24: for a direct-message chat agents_for_chat is the list of the
\* default agent alone and is_multi_agent is false, whatever routes holds.
C24_DirectChatDefault ==
    (probe.op = "agents_for_chat" /\ probe.chat = <<DirectChat>>) =>
        /\ probe.listed = <<cfg.default_agent>>
        /\ ~probe.multi

\* C25: the config that load_routing_config returns, for a routing file or
\* for a missing path, has its default_agent among the keys of agents, only
\* keys of agents in its routes and no empty route; hence agents_for_chat
\* raises no KeyError for any chat.
C25_LoadedConfigValid ==
    cfg # NoConfig =>
        /\ InSeq(cfg.default_agent, cfg.agents)
        /\ \A jid \in DOMAIN cfg.routes :
               /\ cfg.routes[jid] # <<>>
               /\ \A i \in 1..Len(cfg.routes[jid]) :
                      InSeq(cfg.routes[jid][i], cfg.agents)
        /\ probe.op = "agents_for_chat" => probe.listed # KeyError

\* The file lists Tyko alone, names no default agent and routes the group
\* to Tyko and the unknown ressu and the direct chat to ressu only: Ressu
\* was added as the default, ressu was dropped from the group's route, the
\* route of the direct chat was dropped, and the lookup of the group
\* succeeded.
C25_Witness ==
    /\ json = [exists |-> TRUE, agents |-> << <<"Tyko">> >>,
               default_agent |-> Absent,
               routes |-> (GroupChat :> << <<"Tyko">>, <<"ressu">> >> @@
                           DirectChat :> << <<"ressu">> >>)]
    /\ cfg.default_agent = <<"Ressu">>
    /\ cfg.agents = << <<"Tyko">>, <<"Ressu">> >>
    /\ DOMAIN cfg.routes = {GroupChat}
    /\ cfg.routes[GroupChat] = << <<"Tyko">> >>
    /\ probe.op = "agents_for_chat"
    /\ probe.chat = <<GroupChat>>
    /\ probe.listed = << <<"Tyko">> >>

(***************************************************************************)
(* Properties of the delivery poller.                                      *)
(***************************************************************************)
\* The poller handled the delivery at the head of its tick in this step.
PollStep == pollq # <<>> /\ pollq' = Tail(pollq)

\* client.send_message was called in this step and raised.
SendMessageRaised ==
    /\ Len(adapterLog') = Len(adapterLog) + 1
    /\ ~adapterLog'[Len(adapterLog')].ok

\* C26: when the adapter's send_message raises while the poller handles a
\* pending delivery, the delivery is marked failed with the error
\* "send failed", not delivered, and the poller keeps running.
C26_Step ==
    (PollStep /\ SendMessageRaised) =>
        /\ deliveries'[Head(pollq)].status = "failed"
        /\ deliveries'[Head(pollq)].error = "send failed"
        /\ polling' = polling

C26_SendFailureMarksFailed == [][C26_Step]_vars

\* The conversation starts with the prefix of no agent.
LegacyName(conversation) ==
    \A a \in agents : ~StartsWith(conversation, <<"wa-", Lower(a), "-">>)

\* C28: for a delivery whose conversation name has no agent's prefix the
\* poller sends to the conversation without its "wa-" as the chat, with the
\* default agent as the sender; the text of any delivery is prefixed with
\* "[agent]: " exactly when its chat has more than one agent, so a legacy
\* delivery to a single-agent chat is sent unprefixed and, unless
\* send_message raises, marked delivered.
C28_Step ==
    PollStep =>
        LET d == deliveries[Head(pollq)]
            item == lastSend'.item
            from == origin'[Len(origin')]
            multi == Len(agents_for_chat(item.jid)) > 1
        IN  /\ lastSend'.n = lastSend.n + 1
            /\ LegacyName(d.conversation) =>
                   /\ <<"wa-", item.jid>> = d.conversation
                   /\ from.agent = default_agent
            /\ item.text = IF multi THEN <<"[", from.agent, "]: ">> \o d.message
                           ELSE d.message
            /\ (LegacyName(d.conversation) /\ ~multi /\ ~SendMessageRaised) =>
                   /\ item.text = d.message
                   /\ deliveries'[Head(pollq)].status = "delivered"

C28_LegacyDelivery == [][C28_Step]_vars

\* The legacy delivery "wa-d@s.whatsapp.net" was sent to the direct chat
\* as it is and marked delivered.
C28_Witness ==
    /\ Len(deliveries) = 1
    /\ deliveries[1].conversation = <<"wa-", DirectChat>>
    /\ deliveries[1].status = "delivered"
    /\ pollq = <<>>
    /\ Len(adapterLog) = 1
    /\ adapterLog[1].ok
    /\ adapterLog[1].jid = DirectChat
    /\ adapterLog[1].text = deliveries[1].message
    /\ origin[1].path = "poller"
    /\ origin[1].agent = default_agent

\* C27: an exception raised while one store is scanned does not keep the
\* poll tick from scanning the other stores: when a tick has ended, the scan
\* of every store was started in it.
C27_AllStoresScanned == tickDone => scanned = StoreSet

(***************************************************************************)
(* Properties of the re-flush.                                             *)
(***************************************************************************)
\* The handles of a chat that are scheduled and have not fired.
Handles(tab, orph, c) == (IF tab[c] = "live" THEN 1 ELSE 0) + orph[c]

\* The flush of the chat finished in this step and released the lock.
ReleaseStep(c) == locked[c] /\ ~locked'[c] /\ crashes' = crashes

\* C30: add(chat) while the chat's lock is held sets the chat's
\* pending-reflush flag and schedules no timer; when the flush that holds
\* the lock finishes, a set flag is cleared and exactly one new timer is
\* scheduled for the chat, and without the flag none is.
C30_Step ==
    \A c \in Chats :
        /\ (AddStep(c) /\ locked[c])
               => /\ c \in pending_reflush'
                  /\ timers' = timers
                  /\ orphans' = orphans
                  /\ expired' = expired
        /\ (ReleaseStep(c) /\ c \in pending_reflush)
               => /\ c \notin pending_reflush'
                  /\ timers'[c] = "live"
                  /\ Handles(timers', orphans', c) = Handles(timers, orphans, c) + 1
        /\ (ReleaseStep(c) /\ c \notin pending_reflush)
               => /\ pending_reflush' = pending_reflush
                  /\ timers' = timers
                  /\ orphans' = orphans

C31_OneLiveTimer ==
    \A c \in Chats :
        /\ orphans[c] = 0
        /\ Handles(timers, orphans, c) <= 1

(***************************************************************************)
(* Properties of the life of the delivery poller.                          *)
(***************************************************************************)
\* C32: under any sequence and interleaving of Connected and Disconnected
\* events with the start of the poller on the loop, at most one
\* delivery-poll loop is alive.
C32_OnePoller == Cardinality(alive) <= 1

\* C33: between a handled Disconnected event and the next Connected event
\* no delivery-poll tick runs.
C33_NoTickWhileDown == lastTick.task # 0 => lastTick.link = "up"

(***************************************************************************)
(* Properties of the use of the store by the two threads.                  *)
(***************************************************************************)
\* C34: the store operations are mutually serialized: the adapter thread is
\* never inside a store operation of on_message while the loop thread is
\* inside a store operation of a batch dispatch.
C34_StoreSerialized == ~(AdapterInStore /\ LoopInStore)

(***************************************************************************)
(* Properties of the flush of an empty batch.                              *)
(***************************************************************************)
\* C35: when the flush callback runs for a chat that has no message newer
\* than its agent cursor, it returns without a dispatch (and so without the
\* typing indicator that _dispatch_for_agent sets around it), hands nothing
\* to the outbound queue and leaves the agent cursor as it is.
C35_Step ==
    \A c \in Chats :
        (/\ run.chat = ""
         /\ NewBatch(c) = <<>>
         /\ run'.chat = c \/ (lastRun' # lastRun /\ lastRun'.chat = c))
            => /\ run' = run
               /\ lastRun'.returned
               /\ lastRun'.trace = <<>>
               /\ outbox' = outbox
               /\ last_agent_timestamp' = last_agent_timestamp

C35_EmptyBatchNoOp == [][C35_Step]_vars

\* The group's batch was dispatched and its cursor advanced; a further
\* flush of the group found nothing new and returned at once.
C35_Witness ==
    /\ run.chat = ""
    /\ lastRun.chat = GroupChat
    /\ lastRun.returned
    /\ lastRun.batch = <<>>
    /\ lastRun.trace = <<>>
    /\ last_agent_timestamp[GroupChat] # EmptyStr
    /\ NewBatch(GroupChat) = <<>>

(***************************************************************************)
(* Conservation of the outbound messages.                                  *)
(***************************************************************************)
\* The calls of send_message for message id that returned, and the queue
\* entries of the message.
SentOk(id) == {k \in 1..Len(adapterLog) : adapterLog[k].id = id /\ adapterLog[k].ok}
Queued(id) == {k \in 1..Len(queue) : queue[k].id = id}

\* C36: every message that was passed to OutgoingQueue.send is accounted for
\* exactly once, as a send_message call that returned or as one entry of
\* the queue, with the chat it was sent to: none is dropped, none is queued
\* twice, and none that was sent is still queued.
C36_Conservation ==
    /\ \A id \in 1..sendCount :
           /\ Cardinality(SentOk(id)) + Cardinality(Queued(id)) = 1
           /\ \A k \in Queued(id) : queue[k].jid = origin[id].chat
           /\ \A k \in SentOk(id) : adapterLog[k].jid = origin[id].chat
    /\ \A k \in 1..Len(queue) : queue[k].id \in 1..sendCount
    /\ \A k \in 1..Len(adapterLog) : adapterLog[k].id \in 1..sendCount

\* Message 1 was queued while disconnected, failed once in the flush after
\* the reconnect and was sent in a later round; message 2 is still queued.
C36_Witness ==
    /\ sendCount = 2
    /\ Len(adapterLog) >= 2
    /\ \E j, k \in 1..Len(adapterLog) :
           /\ j < k
           /\ adapterLog[j].id = 1 /\ ~adapterLog[j].ok
           /\ adapterLog[k].id = 1 /\ adapterLog[k].ok
    /\ Queued(1) = {}
    /\ Queued(2) # {}
    /\ SentOk(2) = {}

\* C37: a delivery is in status delivered only when a send_message call for
\* its message has returned; a delivery whose message was only put into the
\* outbound queue is not delivered.
C37_DeliveredMeansSent ==
    \A i \in 1..Len(deliveries) :
        deliveries[i].status = "delivered" =>
            \E id \in 1..sendCount :
                /\ origin[id].path = "poller"
                /\ origin[id].src = deliveries[i].message
                /\ SentOk(id) # {}

(***************************************************************************)
(* At most one dispatch of a message.                                      *)
(***************************************************************************)
\* C38: as long as the process has not stopped, a batch that is handed to
\* the dispatcher contains no row that was in an earlier batch: a message is
\* dispatched to the agents of its chat at most once.
C38_Step ==
    \A c \in Chats :
        (Len(active'[c]) = Len(active[c]) + 1 /\ crashes' = 0) =>
            BatchIds(active'[c][Len(active'[c])].batch) \cap handed = {}

C39_AddLeadsToFlush == \A c \in Chats : (c \in owed) ~> (c \notin owed)

(***************************************************************************)
(* At-least-once outbound delivery.                                        *)
(***************************************************************************)
\* A message is held in the queue while the bridge is connected and no
\* flush is running.
Held == connected /\ fpc = "idle" /\ queue # <<>>

\* C40: a message held in the outbound queue while the bridge is connected
\* is eventually passed to send_message again (a flush starts or the queue
\* is drained) unless the connection drops first; this covers the message
\* that was queued because send_message raised while connected.
C40_HeldIsResent == Held ~> (fpc = "flush" \/ queue = <<>> \/ ~connected)

====
